---------------------------- MODULE Spec2Model ----------------------------
(***************************************************************************)
(* A model of the curlme command-line client: the persisted bin context    *)
(* (src/src/config.ts), the bin resolution every command starts with and   *)
(* the polling loop of `listen` (src/src/index.ts).                        *)
(***************************************************************************)
EXTENDS Integers, Sequences, FiniteSets, TLC

\* ------------------------------------------------------------------------
\* Bounds of the model
\* ------------------------------------------------------------------------

\* Number of distinct request IDs the backend can ever hold.
NumReqs == 3

\* Longest response of a backend whose responses are arbitrary.
MaxBatch == 2

\* Number of distinct bin ids.
NumBins == 2

\* ------------------------------------------------------------------------
\* Program constants
\* ------------------------------------------------------------------------

\* setTimeout(poll, 1200)
POLL_DELAY == 1200

\* pushRecentBin: .slice(0, 10)
RECENT_LIMIT == 10

\* ------------------------------------------------------------------------
\* Request records
\* ------------------------------------------------------------------------

ReqIds == 1..NumReqs

\* RequestRecord.timestamp of the record with a given id: ids 1,2 share
\* timestamp 1, ids 3,4 share timestamp 2, ... so that both ties and
\* distinct timestamps occur.
TsOf(id) == (id + 1) \div 2

MaxTs == TsOf(NumReqs)

\* Values Date.now() - sinceMs can take relative to the record timestamps.
InitWatermarks == 0..(MaxTs + 1)

Max(a, b) == IF a >= b THEN a ELSE b

RECURSIVE SeqsUpTo(_, _)
\* All sequences over S of length at most n.
SeqsUpTo(S, n) ==
    IF n = 0 THEN {<<>>}
    ELSE LET shorter == SeqsUpTo(S, n - 1)
         IN  shorter \cup {Append(s, x) : s \in {t \in shorter : Len(t) = n - 1}, x \in S}

Range(s) == {s[i] : i \in DOMAIN s}

RECURSIVE Perms(_)
\* All orders in which the elements of S can be listed, each once.
Perms(S) ==
    IF S = {} THEN {<<>>}
    ELSE UNION {{<<x>> \o p : p \in Perms(S \ {x})} : x \in S}

\* s with x inserted after its first k elements.
InsertAt(s, k, x) == SubSeq(s, 1, k) \o <<x>> \o SubSeq(s, k + 1, Len(s))

\* The sequences of R, and those with one further element of S inserted
\* anywhere.
WithExtra(R, S) ==
    R \cup UNION {{InsertAt(r, k, x) : k \in 0..Len(r), x \in S} : r \in R}

VARIABLES
    feed,        \* backend: ids of the requests the bin holds (visible to getRequests)
    lastSince,   \* listen: the watermark passed to getRequests
    seen,        \* listen: Set of request ids already printed
    rowIndex,    \* listen: counter of printed rows
    rendered,    \* stdout rows printed by printRequestRow, in print order
    stderr,      \* number of error lines the listen loop has printed
    pc,          \* listen: "idle" (between ticks), "fetching" (awaiting getRequests), "stopped"
    timers,      \* delays of the pending timers/calls that will invoke poll
    reqSince,    \* the sinceTs argument of the getRequests call in flight
    lastFetch,   \* how the last awaited getRequests settled: "none", "ok", "error"
    startSince,  \* the watermark the invocation started with
    skipped,     \* ids the last processed batch skipped at `if (seen.has(req.id)) return`
    resorted,    \* whether the sort changed the order of the last processed batch
    conf,        \* the persisted Conf document: the keys that are set, with their values
    cmd,         \* the command invocation that resolves its bin (getBinOrExit)
    requestsCache, \* legacy listen: the buffer of the latest rendered requests
    res,         \* a call of requireRefOrPick: its arguments, position and outcome
    dif,         \* the comparison of the diff command: its two records and its output
    ops,         \* number of context operations run since the drawn starting context
    call,        \* a call of a pure helper (parseDurationMs, getBaseUrl, getWorkspaceKey)
    procs,       \* two concurrent processes inside setActiveBin / pushRecentBin
    shortcut     \* legacy listen: what the last keypress handler read from the buffer

tailVars == <<feed, lastSince, seen, rowIndex, rendered, stderr, pc, timers,
              reqSince, lastFetch, startSince, skipped, resorted>>

ctxVars == <<conf, cmd>>

restVars == <<ops, call, procs, shortcut>>

auxVars == <<requestsCache, res, dif, restVars>>

vars == <<tailVars, ctxVars, auxVars>>

\* ------------------------------------------------------------------------
\* Persisted bin context (config.ts)
\* ------------------------------------------------------------------------

\* Bin ids (Bin.publicId): non-empty strings, here numbered.
BinIds == 1..NumBins

\* The values getWorkspaceKey() takes: the workspace the commands are
\* run from and another one.
Workspaces == {"/w1", "/w2"}

\* config.delete(key)
ConfDelete(c, key) == [k \in DOMAIN c \ {key} |-> c[k]]

\* config.set(key, value)
ConfSet(c, key, value) ==
    [k \in DOMAIN c \cup {key} |-> IF k = key THEN value ELSE c[k]]

\* config.get(key) of a key holding a bin id: the set of the value, empty
\* when the key is not set (undefined).
ConfGetId(c, key) == IF key \in DOMAIN c THEN {c[key]} ELSE {}

\* config.get(key) ?? {} of a key holding a map.
ConfGetMap(c, key) == IF key \in DOMAIN c THEN c[key] ELSE <<>>

\* map[workspace] = value
MapSet(map, key, value) ==
    [k \in DOMAIN map \cup {key} |-> IF k = key THEN value ELSE map[k]]

\* delete map[workspace]
MapDelete(map, key) == [k \in DOMAIN map \ {key} |-> map[k]]

\* a ?? b on optional values.
OrElse(a, b) == IF a # {} THEN a ELSE b

\* getActiveBin that never consults the legacy slot.
GetActiveBinNoLegacy(c, global, workspace) ==
    IF global THEN ConfGetId(c, "globalActiveBinId")
    ELSE LET map == ConfGetMap(c, "activeBinsByWorkspace")
         IN  OrElse(IF workspace \in DOMAIN map THEN {map[workspace]} ELSE {},
                    ConfGetId(c, "globalActiveBinId"))

\* getActiveBin(global): the set of the returned id, empty for undefined.
GetActiveBin(c, global, workspace) ==
    IF global THEN ConfGetId(c, "globalActiveBinId")
    ELSE LET map == ConfGetMap(c, "activeBinsByWorkspace")
         IN  OrElse(IF workspace \in DOMAIN map THEN {map[workspace]} ELSE {},
                    OrElse(ConfGetId(c, "activeBinId"),
                           ConfGetId(c, "globalActiveBinId")))

\* setActiveBin that writes the workspace entry only, or the global slot
\* together with the legacy one.
SetActiveBinNoSync(c, id, global, workspace) ==
    IF global THEN ConfSet(ConfSet(c, "globalActiveBinId", id), "activeBinId", id)
    ELSE ConfSet(c, "activeBinsByWorkspace",
                 MapSet(ConfGetMap(c, "activeBinsByWorkspace"), workspace, id))

\* setActiveBin(id, global)
SetActiveBin(c, id, global, workspace) ==
    IF global THEN ConfSet(c, "globalActiveBinId", id)
    ELSE ConfSet(ConfSet(c, "activeBinsByWorkspace",
                         MapSet(ConfGetMap(c, "activeBinsByWorkspace"), workspace, id)),
                 "activeBinId", id)

\* clearActiveBin that drops the whole workspace map, or the global slot
\* together with the legacy one.
ClearActiveBinAll(c, global, workspace) ==
    IF global THEN ConfDelete(ConfDelete(c, "globalActiveBinId"), "activeBinId")
    ELSE ConfDelete(ConfSet(c, "activeBinsByWorkspace", <<>>), "activeBinId")

\* clearActiveBin that leaves the legacy slot alone.
ClearActiveBinKeepLegacy(c, global, workspace) ==
    IF global THEN ConfDelete(c, "globalActiveBinId")
    ELSE ConfSet(c, "activeBinsByWorkspace",
                 MapDelete(ConfGetMap(c, "activeBinsByWorkspace"), workspace))

\* clearActiveBin(global).  A stored bin id is a non-empty string, so
\* `if (config.get('activeBinId'))` holds exactly when the key is set.
ClearActiveBin(c, global, workspace) ==
    IF global THEN ConfDelete(c, "globalActiveBinId")
    ELSE LET cleared == ConfSet(c, "activeBinsByWorkspace",
                                MapDelete(ConfGetMap(c, "activeBinsByWorkspace"), workspace))
         IN  IF ConfGetId(cleared, "activeBinId") # {}
             THEN ConfDelete(cleared, "activeBinId")
             ELSE cleared

\* getRecentBins(global)
GetRecentBins(c, global, workspace) ==
    IF global
    THEN LET globalActive == ConfGetId(c, "globalActiveBinId")
         IN  IF globalActive # {} THEN <<CHOOSE id \in globalActive : TRUE>> ELSE <<>>
    ELSE LET map == ConfGetMap(c, "recentBinsByWorkspace")
         IN  IF workspace \in DOMAIN map THEN map[workspace] ELSE <<>>

\* current.filter((value) => value !== id)
Without(current, id) == SelectSeq(current, LAMBDA value : value # id)

\* list.slice(0, n)
Slice0(list, n) == SubSeq(list, 1, IF Len(list) < n THEN Len(list) ELSE n)

\* pushRecentBin without .slice(0, 10).
PushRecentBinUncapped(c, id, global, workspace) ==
    IF global THEN c
    ELSE LET map     == ConfGetMap(c, "recentBinsByWorkspace")
             current == IF workspace \in DOMAIN map THEN map[workspace] ELSE <<>>
             next    == <<id>> \o Without(current, id)
         IN  ConfSet(c, "recentBinsByWorkspace", MapSet(map, workspace, next))

\* pushRecentBin without the filter that removes the id from the list.
PushRecentBinNoFilter(c, id, global, workspace) ==
    IF global THEN c
    ELSE LET map     == ConfGetMap(c, "recentBinsByWorkspace")
             current == IF workspace \in DOMAIN map THEN map[workspace] ELSE <<>>
             next    == Slice0(<<id>> \o current, RECENT_LIMIT)
         IN  ConfSet(c, "recentBinsByWorkspace", MapSet(map, workspace, next))

\* pushRecentBin that also records the id under --global.
PushRecentBinGlobalToo(c, id, global, workspace) ==
    LET map     == ConfGetMap(c, "recentBinsByWorkspace")
        current == IF workspace \in DOMAIN map THEN map[workspace] ELSE <<>>
        next    == Slice0(<<id>> \o Without(current, id), RECENT_LIMIT)
    IN  ConfSet(c, "recentBinsByWorkspace", MapSet(map, workspace, next))

\* pushRecentBin(id, global)
PushRecentBin(c, id, global, workspace) ==
    IF global THEN c
    ELSE LET map     == ConfGetMap(c, "recentBinsByWorkspace")
             current == IF workspace \in DOMAIN map THEN map[workspace] ELSE <<>>
             next    == Slice0(<<id>> \o Without(current, id), RECENT_LIMIT)
         IN  ConfSet(c, "recentBinsByWorkspace", MapSet(map, workspace, next))

\* The document before anything was stored (the baseUrl default is not
\* part of the bin context).
EmptyConf == <<>>

\* No command has run yet.
NoCmd ==
    [pc |-> "none", bin |-> {}, global |-> FALSE, workspace |-> "/w1",
     candidate |-> {}, ret |-> {}, error |-> "", exit |-> {}]

InitCtx ==
    /\ conf = EmptyConf
    /\ cmd = NoCmd

\* A process calls setActiveBin(id, global) from a workspace.
DoSet(id, global, workspace) ==
    /\ cmd.pc = "none"
    /\ conf' = SetActiveBin(conf, id, global, workspace)
    /\ UNCHANGED <<cmd, tailVars, auxVars>>

\* A process calls clearActiveBin(global) from a workspace (`bin clear`).
DoClear(global, workspace) ==
    /\ cmd.pc = "none"
    /\ conf' = ClearActiveBin(conf, global, workspace)
    /\ UNCHANGED <<cmd, tailVars, auxVars>>

\* A process calls pushRecentBin(id, global) from a workspace.
DoPush(id, global, workspace) ==
    /\ cmd.pc = "none"
    /\ conf' = PushRecentBin(conf, id, global, workspace)
    /\ UNCHANGED <<cmd, tailVars, auxVars>>

\* doInit / doBinSet: a command makes a bin the active one.
DoEstablish(id, global, workspace) ==
    /\ cmd.pc = "none"
    /\ conf' = PushRecentBin(SetActiveBin(conf, id, global, workspace),
                             id, global, workspace)
    /\ UNCHANGED <<cmd, tailVars, auxVars>>

\* getBinOrExit up to its await: the candidate is the explicit --bin or the
\* stored active bin; without one the command exits with an error.
GetBinOrExitStart(bin, global, workspace) ==
    /\ cmd.pc = "none"
    /\ LET candidate == OrElse(bin, GetActiveBin(conf, global, workspace))
       IN  cmd' = [pc        |-> IF candidate = {} THEN "exited" ELSE "resolving",
                   bin       |-> bin,
                   global    |-> global,
                   workspace |-> workspace,
                   candidate |-> candidate,
                   ret       |-> {},
                   error     |-> IF candidate = {} THEN "No active bin" ELSE "",
                   exit      |-> IF candidate = {} THEN {1} ELSE {}]
    /\ UNCHANGED <<conf, tailVars, auxVars>>

\* A resolution that stores the candidate it asked for, not the publicId
\* of the bin it got.
GetBinResolvedStoresCandidate(publicId) ==
    /\ cmd.pc = "resolving"
    /\ LET asked == CHOOSE id \in cmd.candidate : TRUE
       IN  conf' = PushRecentBin(SetActiveBin(conf, asked, cmd.global, cmd.workspace),
                                 asked, cmd.global, cmd.workspace)
    /\ cmd' = [cmd EXCEPT !.pc = "returned", !.ret = {publicId}]
    /\ UNCHANGED <<tailVars, auxVars>>

\* api.getBin(candidate) resolves with a bin: it becomes the active bin of
\* the scope and the most recent one, and its publicId is returned.
GetBinResolved(publicId) ==
    /\ cmd.pc = "resolving"
    /\ conf' = PushRecentBin(SetActiveBin(conf, publicId, cmd.global, cmd.workspace),
                             publicId, cmd.global, cmd.workspace)
    /\ cmd' = [cmd EXCEPT !.pc = "returned", !.ret = {publicId}]
    /\ UNCHANGED <<tailVars, auxVars>>

\* A failed resolution that clears the stored context even under --bin.
GetBinRejectedAlwaysClears ==
    /\ cmd.pc = "resolving"
    /\ conf' = ClearActiveBin(conf, cmd.global, cmd.workspace)
    /\ cmd' = [cmd EXCEPT !.pc = "exited", !.error = "not found", !.exit = {1}]
    /\ UNCHANGED <<tailVars, auxVars>>

\* api.getBin(candidate) rejects: the stored context is cleared unless the
\* candidate was an explicit --bin, the error is printed, the process exits.
GetBinRejected ==
    /\ cmd.pc = "resolving"
    /\ conf' = IF cmd.bin = {}
               THEN ClearActiveBin(conf, cmd.global, cmd.workspace)
               ELSE conf
    /\ cmd' = [cmd EXCEPT !.pc = "exited", !.error = "not found", !.exit = {1}]
    /\ UNCHANGED <<tailVars, auxVars>>

DoSetAny == \E id \in BinIds, global \in BOOLEAN, workspace \in Workspaces :
                DoSet(id, global, workspace)

DoClearAny == \E global \in BOOLEAN, workspace \in Workspaces :
                  DoClear(global, workspace)

DoPushAny == \E id \in BinIds, global \in BOOLEAN, workspace \in Workspaces :
                 DoPush(id, global, workspace)

DoEstablishAny == \E id \in BinIds, global \in BOOLEAN, workspace \in Workspaces :
                      DoEstablish(id, global, workspace)

GetBinOrExitStartAny ==
    \E bin \in {{}} \cup {{id} : id \in BinIds}, global \in BOOLEAN,
       workspace \in Workspaces :
        GetBinOrExitStart(bin, global, workspace)

GetBinResolvedAny == \E publicId \in BinIds : GetBinResolved(publicId)

\* ------------------------------------------------------------------------
\* Request references (index.ts: shortRequestId, resolveRef, pickRequest,
\* requireRefOrPick)
\* ------------------------------------------------------------------------

\* Longest snapshot whose records are drawn freely from the pool of ids.
MaxSnap == 3

\* shortRequestId: id.slice(0, 10)
SHORT_ID_LENGTH == 10

\* shortRequestId: `req_${id.slice(0, 6)}`
SHORT_ID_BODY == 6

\* pickRequest: reqs.slice(0, 10)
PICK_LIMIT == 10

\* Strings (ids, refs) are sequences of characters.
DigitChars == <<"0", "1", "2", "3", "4", "5", "6", "7", "8", "9">>

\* 'req_'
REQ_PREFIX == <<"r", "e", "q", "_">>

\* The string made of n times the character c.
Rep(c, n) == [i \in 1..n |-> c]

\* s.startsWith(prefix)
StartsWith(s, prefix) ==
    /\ Len(prefix) <= Len(s)
    /\ SubSeq(s, 1, Len(prefix)) = prefix

\* shortRequestId(id): the short form printed in listing rows.
ShortRequestId(id) ==
    IF StartsWith(id, REQ_PREFIX)
    THEN Slice0(id, SHORT_ID_LENGTH)
    ELSE REQ_PREFIX \o Slice0(id, SHORT_ID_BODY)

\* /^\d+$/.test(ref)
IsDigits(ref) ==
    /\ ref # <<>>
    /\ \A i \in DOMAIN ref : \E k \in DOMAIN DigitChars : DigitChars[k] = ref[i]

\* The value of one decimal digit.
DigitValue(c) == (CHOOSE k \in DOMAIN DigitChars : DigitChars[k] = c) - 1

RECURSIVE Number(_)
\* Number(ref) of a digits-only string.
Number(ref) ==
    IF ref = <<>> THEN 0
    ELSE 10 * Number(SubSeq(ref, 1, Len(ref) - 1)) + DigitValue(ref[Len(ref)])

RECURSIVE ToDigits(_)
\* The decimal notation of n, as a user types it.
ToDigits(n) ==
    IF n < 10 THEN <<DigitChars[n + 1]>>
    ELSE ToDigits(n \div 10) \o <<DigitChars[(n % 10) + 1]>>

\* What resolveRef hands back: a record, null (no value, nothing thrown), or
\* a thrown Error with its message.
Null == [value |-> {}, thrown |-> ""]

Found(r) == [value |-> {r}, thrown |-> ""]

Throw(message) == [value |-> {}, thrown |-> message]

\* resolveRef that settles several matches by taking the first.
ResolveRefFirstMatch(ref, reqs) ==
    IF ref = <<>> THEN Null
    ELSE IF IsDigits(ref)
         THEN LET index == Number(ref)
              IN  IF index \in DOMAIN reqs THEN Found(reqs[index]) ELSE Null
         ELSE LET matches == SelectSeq(reqs, LAMBDA r :
                                 \/ r.id = ref
                                 \/ StartsWith(r.id, ref)
                                 \/ ShortRequestId(r.id) = ref)
              IN  IF Len(matches) >= 1 THEN Found(matches[1]) ELSE Null

\* resolveRef that tries the ids before the index.
ResolveRefIdFirst(ref, reqs) ==
    IF ref = <<>> THEN Null
    ELSE LET matches == SelectSeq(reqs, LAMBDA r :
                            \/ r.id = ref
                            \/ StartsWith(r.id, ref)
                            \/ ShortRequestId(r.id) = ref)
         IN  IF Len(matches) = 1 THEN Found(matches[1])
             ELSE IF Len(matches) > 1 THEN Throw("matches multiple requests")
             ELSE IF IsDigits(ref)
                  THEN LET index == Number(ref)
                       IN  IF index \in DOMAIN reqs THEN Found(reqs[index]) ELSE Null
                  ELSE Null

\* resolveRef that does not compare with the short form.
ResolveRefNoShort(ref, reqs) ==
    IF ref = <<>> THEN Null
    ELSE IF IsDigits(ref)
         THEN LET index == Number(ref)
              IN  IF index \in DOMAIN reqs THEN Found(reqs[index]) ELSE Null
         ELSE LET matches == SelectSeq(reqs, LAMBDA r :
                                 \/ r.id = ref
                                 \/ StartsWith(r.id, ref))
              IN  IF Len(matches) = 1 THEN Found(matches[1])
                  ELSE IF Len(matches) > 1 THEN Throw("matches multiple requests")
                  ELSE Null

\* resolveRef(ref, reqs)
ResolveRef(ref, reqs) ==
    IF ref = <<>> THEN Null
    ELSE IF IsDigits(ref)
         THEN LET index == Number(ref)
              IN  IF index \in DOMAIN reqs THEN Found(reqs[index]) ELSE Null
         ELSE LET matches == SelectSeq(reqs, LAMBDA r :
                                 \/ r.id = ref
                                 \/ StartsWith(r.id, ref)
                                 \/ ShortRequestId(r.id) = ref)
              IN  IF Len(matches) = 1 THEN Found(matches[1])
                  ELSE IF Len(matches) > 1 THEN Throw("matches multiple requests")
                  ELSE Null

\* The choices of a picker that lists the whole snapshot.
PickRequestTopAll(reqs, tty) ==
    IF ~tty THEN <<>>
    ELSE reqs

\* pickRequest up to its await: the choices select() is given; none when
\* it returns null without prompting.
PickRequestTop(reqs, tty) ==
    IF ~tty THEN <<>>
    ELSE IF reqs = <<>> THEN <<>>
    ELSE Slice0(reqs, PICK_LIMIT)

\* top.find((r) => r.id === value) ?? null
FindById(top, value) ==
    IF \E i \in DOMAIN top : top[i].id = value
    THEN {top[CHOOSE i \in DOMAIN top :
                 /\ top[i].id = value
                 /\ \A j \in DOMAIN top : top[j].id = value => i <= j]}
    ELSE {}

\* The call ends: it returns a record or throws an Error with a message.
Return(r, record) == [r EXCEPT !.pc = "done", !.out = {record}]

Fail(r, message) == [r EXCEPT !.pc = "done", !.error = message]

\* requireRefOrPick that falls back to the newest record without a ref.
RequireRefOrPickNewest(r) ==
    IF r.ref # <<>>
    THEN LET resolved == ResolveRef(r.ref, r.reqs)
         IN  IF resolved.thrown # "" THEN Fail(r, resolved.thrown)
             ELSE IF resolved.value = {} THEN Fail(r, "not found")
             ELSE Return(r, CHOOSE x \in resolved.value : TRUE)
    ELSE IF r.tty
         THEN LET top == PickRequestTop(r.reqs, r.tty)
              IN  IF top = <<>> THEN Fail(r, "No requests in the active bin yet")
                  ELSE [r EXCEPT !.pc = "picking", !.shown = TRUE, !.top = top]
         ELSE IF r.reqs # <<>> THEN Return(r, r.reqs[1])
              ELSE Fail(r, "Missing <ref>")

\* requireRefOrPick(ref, reqs, title) up to its await or its end.
RequireRefOrPick(r) ==
    IF r.ref # <<>>
    THEN LET resolved == ResolveRef(r.ref, r.reqs)
         IN  IF resolved.thrown # "" THEN Fail(r, resolved.thrown)
             ELSE IF resolved.value = {} THEN Fail(r, "not found")
             ELSE Return(r, CHOOSE x \in resolved.value : TRUE)
    ELSE IF r.tty
         THEN LET top == PickRequestTop(r.reqs, r.tty)
              IN  IF top = <<>> THEN Fail(r, "No requests in the active bin yet")
                  ELSE [r EXCEPT !.pc = "picking", !.shown = TRUE, !.top = top]
         ELSE Fail(r, "Missing <ref>")

\* No call of requireRefOrPick is under way.
NoRes ==
    [pc |-> "none", ref |-> <<>>, reqs |-> <<>>, tty |-> FALSE, shown |-> FALSE,
     top |-> <<>>, out |-> {}, error |-> ""]

\* Request ids as the backend may issue them: `req_` ids longer than the
\* short form that share it, a `req_` id that is its own short form, ids
\* without the prefix (one longer, one shorter than the short form's body)
\* and an id made of digits only.
IdPool ==
    { REQ_PREFIX \o Rep("a", SHORT_ID_BODY + 1),
      REQ_PREFIX \o Rep("a", SHORT_ID_BODY) \o <<"b">>,
      REQ_PREFIX \o Rep("b", SHORT_ID_BODY),
      Rep("a", SHORT_ID_BODY) \o <<"b">>,
      <<"a", "b">>,
      <<"2">> }

\* The i-th id of a snapshot longer than the picker's page.
LongId(i) == REQ_PREFIX \o Rep("c", i)

\* Snapshots (newest first) of records with distinct ids: short ones over
\* the pool and long ones around the picker's page size.
Snapshots ==
    {[i \in DOMAIN s |-> [id |-> s[i]]] :
        s \in {t \in SeqsUpTo(IdPool, MaxSnap) :
                  \A i, j \in DOMAIN t : t[i] = t[j] => i = j}}
    \cup {[i \in 1..n |-> [id |-> LongId(i)]] : n \in PICK_LIMIT..(PICK_LIMIT + 2)}

\* The non-empty prefixes of a string.
Prefixes(s) == {SubSeq(s, 1, k) : k \in 1..Len(s)}

\* Refs a user can type: nothing, indexes (also with a leading zero),
\* ids, their prefixes and short forms, and a token that matches nothing.
Refs ==
    {<<>>, <<"z">>}
    \cup {ToDigits(n) : n \in 0..(PICK_LIMIT + 3)}
    \cup {<<"0">> \o ToDigits(n) : n \in 1..2}
    \cup UNION {Prefixes(id) : id \in IdPool \cup {LongId(SHORT_ID_BODY + 1)}}
    \cup {ShortRequestId(id) : id \in IdPool}

\* The calls requireRefOrPick(ref, reqs, title) with isTTY() being tty.
RefCalls ==
    {[NoRes EXCEPT !.pc = "called", !.ref = ref, !.reqs = reqs, !.tty = tty] :
        ref \in Refs, reqs \in Snapshots, tty \in BOOLEAN}

\* requireRefOrPick runs until it returns, throws or awaits the picker.
RequireRefOrPickCall ==
    /\ res.pc = "called"
    /\ res' = RequireRefOrPick(res)
    /\ UNCHANGED <<tailVars, ctxVars, requestsCache, dif, restVars>>

\* select() resolves with the value of the choice the user made.
PickSelected(value) ==
    /\ res.pc = "picking"
    /\ LET picked == FindById(res.top, value)
       IN  res' = IF picked = {}
                  THEN Fail(res, "No requests in the active bin yet")
                  ELSE Return(res, CHOOSE x \in picked : TRUE)
    /\ UNCHANGED <<tailVars, ctxVars, requestsCache, dif, restVars>>

\* select() rejects (the prompt is cancelled): the rejection propagates out
\* of requireRefOrPick.
PickCancelled ==
    /\ res.pc = "picking"
    /\ res' = Fail(res, "prompt cancelled")
    /\ UNCHANGED <<tailVars, ctxVars, requestsCache, dif, restVars>>

PickSelectedAny == \E i \in DOMAIN res.top : PickSelected(res.top[i].id)

\* ------------------------------------------------------------------------
\* diff (index.ts: bytes, the comparison of the diff command)
\* ------------------------------------------------------------------------

\* Most header keys the two records of a comparison have together.
MaxHeaders == 9

\* diff: if (headerChanges >= 8) break
HEADER_CAP == 8

\* bytes(size): the number, its decimal (none for bytes) and the unit.
\* toFixed(1) rounds the exact quotient to the nearest tenth, a tie upwards.
Bytes(size) ==
    IF size < 1024
    THEN [whole |-> size, tenth |-> {}, unit |-> "B"]
    ELSE IF size < 1024 * 1024
         THEN LET tenths == (size * 10 + 512) \div 1024
              IN  [whole |-> tenths \div 10, tenth |-> {tenths % 10}, unit |-> "KB"]
         ELSE LET tenths == (size * 10 + 512 * 1024) \div (1024 * 1024)
              IN  [whole |-> tenths \div 10, tenth |-> {tenths % 10}, unit |-> "MB"]

\* path || '/'
PathOrRoot(path) == IF path = "" THEN "/" ELSE path

\* Headers are the key/value pairs of an object, in insertion order.
\* Object.keys(headers)
Keys(headers) == [i \in DOMAIN headers |-> headers[i].key]

\* headers[key]: the value, or undefined (no value).
HeaderValue(headers, key) ==
    {headers[i].value : i \in {j \in DOMAIN headers : headers[j].key = key}}

\* new Set([...Object.keys(left.headers), ...Object.keys(right.headers)]) in
\* iteration order.
HeaderKeys(left, right) ==
    Keys(left.headers)
        \o SelectSeq(Keys(right.headers),
                     LAMBDA key : \A i \in DOMAIN left.headers : left.headers[i].key # key)

\* The line printed for a key whose values differ.
HeaderEntry(lv, rv, key) ==
    [kind |-> IF lv = {} THEN "Header added"
              ELSE IF rv = {} THEN "Header removed"
              ELSE "Header changed",
     key  |-> key]

RECURSIVE HeaderLoopNoCap(_, _, _, _)
\* The loop over the header keys without its break.
HeaderLoopNoCap(keys, left, right, printed) ==
    IF keys = <<>> THEN printed
    ELSE LET key == Head(keys)
             lv  == HeaderValue(left.headers, key)
             rv  == HeaderValue(right.headers, key)
         IN  IF lv = rv THEN HeaderLoopNoCap(Tail(keys), left, right, printed)
             ELSE HeaderLoopNoCap(Tail(keys), left, right,
                                  Append(printed, HeaderEntry(lv, rv, key)))

RECURSIVE HeaderLoopNoSkip(_, _, _, _)
\* The loop over the header keys without `if (lv === rv) continue`.
HeaderLoopNoSkip(keys, left, right, printed) ==
    IF keys = <<>> THEN printed
    ELSE LET key  == Head(keys)
             lv   == HeaderValue(left.headers, key)
             rv   == HeaderValue(right.headers, key)
             next == Append(printed, HeaderEntry(lv, rv, key))
         IN  IF Len(next) >= HEADER_CAP THEN next
             ELSE HeaderLoopNoSkip(Tail(keys), left, right, next)

RECURSIVE HeaderLoop(_, _, _, _)
\* for (const key of headerKeys) { ... }: printed holds the header lines
\* so far, headerChanges is their number.
HeaderLoop(keys, left, right, printed) ==
    IF keys = <<>> THEN printed
    ELSE LET key == Head(keys)
             lv  == HeaderValue(left.headers, key)
             rv  == HeaderValue(right.headers, key)
         IN  IF lv = rv THEN HeaderLoop(Tail(keys), left, right, printed)
             ELSE LET next == Append(printed, HeaderEntry(lv, rv, key))
                  IN  IF Len(next) >= HEADER_CAP THEN next
                      ELSE HeaderLoop(Tail(keys), left, right, next)

\* The comparison with a size line that compares the byte counts.
DiffLinesRawSize(left, right) ==
    [entries |->
        (IF left.method # right.method
            THEN <<[kind |-> "Method", key |-> 0]>> ELSE <<>>)
        \o (IF PathOrRoot(left.path) # PathOrRoot(right.path)
            THEN <<[kind |-> "Path", key |-> 0]>> ELSE <<>>)
        \o (IF left.size # right.size
            THEN <<[kind |-> "Body size", key |-> 0]>> ELSE <<>>)
        \o HeaderLoop(HeaderKeys(left, right), left, right, <<>>),
     signal |->
        /\ left.body = right.body
        /\ left.method = right.method
        /\ left.path = right.path
        /\ left.size = right.size]

\* The lines the diff command prints after its title, and whether it ends
\* with 'No material differences found.'
DiffLines(left, right) ==
    [entries |->
        (IF left.method # right.method
            THEN <<[kind |-> "Method", key |-> 0]>> ELSE <<>>)
        \o (IF PathOrRoot(left.path) # PathOrRoot(right.path)
            THEN <<[kind |-> "Path", key |-> 0]>> ELSE <<>>)
        \o (IF Bytes(left.size) # Bytes(right.size)
            THEN <<[kind |-> "Body size", key |-> 0]>> ELSE <<>>)
        \o HeaderLoop(HeaderKeys(left, right), left, right, <<>>),
     signal |->
        /\ left.body = right.body
        /\ left.method = right.method
        /\ left.path = right.path
        /\ left.size = right.size]

\* Header objects with `changed` keys whose values differ, `equal` keys
\* whose values agree, `removed` keys only on the left and `added` keys only
\* on the right; header names are numbered from 1.
LeftHeaders(changed, equal, removed) ==
    [i \in 1..(changed + equal + removed) |-> [key |-> i, value |-> "v"]]

RightHeaders(changed, equal, removed, added) ==
    [j \in 1..(changed + equal + added) |->
        LET key == IF j <= changed + equal THEN j ELSE j + removed
        IN  [key |-> key, value |-> IF key <= changed THEN "w" ELSE "v"]]

\* The pairs of records the diff command compares: methods, paths (empty,
\* root, other), sizes (below 1 KB; two that render alike in KB, two in MB),
\* bodies (absent or present) and headers.
DiffPairs ==
    {[left  |-> [method |-> "GET", path |-> lp, size |-> 1024, body |-> {"a"},
                 headers |-> LeftHeaders(h[1], h[2], h[3])],
      right |-> [method |-> rm, path |-> rp, size |-> rs, body |-> rb,
                 headers |-> RightHeaders(h[1], h[2], h[3], h[4])]] :
        lp \in {"", "/a"}, rm \in {"GET", "POST"}, rp \in {"", "/", "/a"},
        rs \in {512, 1024, 1075, 1024 * 1024, 1100000}, rb \in {{}, {"a"}},
        h \in {x \in (0..MaxHeaders) \X (0..1) \X (0..MaxHeaders) \X (0..MaxHeaders) :
                  x[1] + x[2] + x[3] + x[4] <= MaxHeaders}}

\* No comparison is under way.
NoDif == [pc |-> "none", left |-> <<>>, right |-> <<>>, entries |-> <<>>,
          signal |-> FALSE]

\* diff after both refs were resolved: the comparison is printed.
DiffCompare ==
    /\ dif.pc = "called"
    /\ LET printed == DiffLines(dif.left, dif.right)
       IN  dif' = [dif EXCEPT !.pc = "done", !.entries = printed.entries,
                              !.signal = printed.signal]
    /\ UNCHANGED <<tailVars, ctxVars, requestsCache, res, restVars>>

\* No helper is being called.
NoCall == [fn |-> "none", pc |-> "none"]

\* No process is inside a context operation.
NoProcs == <<>>

\* No key was pressed; the buffer was empty when listen started.
NoShortcut ==
    [fired |-> FALSE, key |-> "", latest |-> {}, prev |-> {}, boundaries |-> {<<>>}]

\* No bounded history, helper call, concurrent operation or keypress.
InitRest ==
    /\ ops = 0
    /\ call = NoCall
    /\ procs = NoProcs
    /\ shortcut = NoShortcut

\* No legacy listen, no reference resolution and no diff is under way.
InitAux ==
    /\ requestsCache = <<>>
    /\ res = NoRes
    /\ dif = NoDif
    /\ InitRest

\* ------------------------------------------------------------------------
\* listen: the poll loop
\* ------------------------------------------------------------------------

RECURSIVE InsertByTs(_, _)
\* Insert id into a sequence sorted by timestamp, after every element whose
\* timestamp is not greater (stable).
InsertByTs(sorted, id) ==
    IF sorted = <<>> THEN <<id>>
    ELSE IF TsOf(Head(sorted)) <= TsOf(id)
         THEN <<Head(sorted)>> \o InsertByTs(Tail(sorted), id)
         ELSE <<id>> \o sorted

RECURSIVE SortFrom(_, _)
SortFrom(acc, rest) ==
    IF rest = <<>> THEN acc
    ELSE SortFrom(InsertByTs(acc, Head(rest)), Tail(rest))

\* A batch left in the order the backend returned it.
SortByTimestampSkipped(reqs) == reqs

\* reqs.sort((a, b) => a.timestamp - b.timestamp): stable, ascending.
SortByTimestamp(reqs) == SortFrom(<<>>, reqs)

\* The forEach body without the seen.has guard.
RenderOneNoDedupe(st, id) ==
    [lastSince |-> Max(st.lastSince, TsOf(id) + 1),
     seen      |-> st.seen \cup {id},
     rowIndex  |-> st.rowIndex + 1,
     rendered  |-> Append(st.rendered,
                          [idx |-> st.rowIndex + 1, id |-> id, ts |-> TsOf(id),
                           batch |-> st.batch]),
     batch     |-> st.batch,
     skipped   |-> st.skipped]

\* The forEach body that counts a row before the seen.has guard.
RenderOneCountsSkipped(st, id) ==
    IF id \in st.seen
    THEN [st EXCEPT !.skipped = @ \cup {id}, !.rowIndex = @ + 1]
    ELSE [lastSince |-> Max(st.lastSince, TsOf(id) + 1),
          seen      |-> st.seen \cup {id},
          rowIndex  |-> st.rowIndex + 1,
          rendered  |-> Append(st.rendered,
                               [idx |-> st.rowIndex + 1, id |-> id, ts |-> TsOf(id),
                                batch |-> st.batch]),
          batch     |-> st.batch,
          skipped   |-> st.skipped]

\* The forEach body that sets the watermark to timestamp + 1 without
\* Math.max.
RenderOneNoMax(st, id) ==
    IF id \in st.seen THEN [st EXCEPT !.skipped = @ \cup {id}]
    ELSE [lastSince |-> TsOf(id) + 1,
          seen      |-> st.seen \cup {id},
          rowIndex  |-> st.rowIndex + 1,
          rendered  |-> Append(st.rendered,
                               [idx |-> st.rowIndex + 1, id |-> id, ts |-> TsOf(id),
                                batch |-> st.batch]),
          batch     |-> st.batch,
          skipped   |-> st.skipped]

\* The forEach body: one record of the sorted batch.
RenderOne(st, id) ==
    IF id \in st.seen THEN [st EXCEPT !.skipped = @ \cup {id}]
    ELSE [lastSince |-> Max(st.lastSince, TsOf(id) + 1),
          seen      |-> st.seen \cup {id},
          rowIndex  |-> st.rowIndex + 1,
          rendered  |-> Append(st.rendered,
                               [idx |-> st.rowIndex + 1, id |-> id, ts |-> TsOf(id),
                                batch |-> st.batch]),
          batch     |-> st.batch,
          skipped   |-> st.skipped]

RECURSIVE ForEach(_, _)
ForEach(st, reqs) ==
    IF reqs = <<>> THEN st
    ELSE ForEach(RenderOne(st, Head(reqs)), Tail(reqs))

\* The state of the loop before a batch; batch tags the rows of one tick with
\* the row counter the tick started from.
TailState ==
    [lastSince |-> lastSince, seen |-> seen, rowIndex |-> rowIndex,
     rendered |-> rendered, batch |-> rowIndex, skipped |-> {}]

\* Responses of getRequests(binId, since): every held record with
\* timestamp >= since, in any order, possibly with one entry repeated or
\* one record that was already delivered returned again.
HonestResponses(since) ==
    LET must == {id \in feed : TsOf(id) >= since}
        may  == must \cup (feed \cap seen)
    IN  WithExtra(Perms(must), may)

\* Responses of a backend that promises nothing about what it returns.
AnyResponses == SeqsUpTo(ReqIds, MaxBatch)

InitTail ==
    /\ feed \in SUBSET ReqIds
    /\ startSince \in InitWatermarks
    /\ lastSince = startSince
    /\ seen = {}
    /\ rowIndex = 0
    /\ rendered = <<>>
    /\ stderr = 0
    /\ pc = "idle"
    /\ timers = {0}
    /\ reqSince = startSince
    /\ lastFetch = "none"
    /\ skipped = {}
    /\ resorted = FALSE
    /\ InitCtx
    /\ InitAux

\* listen started with a look-back that covers every timestamp, before any
\* request arrived.
InitTailLookBack == InitTail /\ feed = {} /\ startSince = 0

\* listen started against a backend whose responses are arbitrary.
InitTailAny == InitTail /\ feed = {} /\ startSince = MaxTs

\* The backend captures a request: it becomes visible to getRequests.
Arrive(id) ==
    /\ id \notin feed
    /\ feed' = feed \cup {id}
    /\ UNCHANGED <<lastSince, seen, rowIndex, rendered, stderr, pc, timers,
                   reqSince, lastFetch, startSince, skipped, resorted>>
    /\ UNCHANGED <<ctxVars, auxVars>>

\* A poll() that arms the next timer before it awaits getRequests.
PollCallArmsFirst ==
    /\ pc = "idle"
    /\ timers # {}
    /\ pc' = "fetching"
    /\ timers' = {POLL_DELAY}
    /\ reqSince' = lastSince
    /\ UNCHANGED <<feed, lastSince, seen, rowIndex, rendered, stderr, lastFetch,
                   startSince, skipped, resorted>>
    /\ UNCHANGED <<ctxVars, auxVars>>

\* poll() is invoked (directly at start, by the timer afterwards) and
\* issues api.getRequests(binId, lastSince).
PollCall ==
    /\ pc = "idle"
    /\ timers # {}
    /\ pc' = "fetching"
    /\ timers' = {}
    /\ reqSince' = lastSince
    /\ UNCHANGED <<feed, lastSince, seen, rowIndex, rendered, stderr, lastFetch,
                   startSince, skipped, resorted>>
    /\ UNCHANGED <<ctxVars, auxVars>>

\* The awaited getRequests resolves with reqs: sort, render, re-arm the timer.
PollResolved(reqs) ==
    /\ pc = "fetching"
    /\ LET st == ForEach(TailState, SortByTimestamp(reqs))
       IN  /\ lastSince' = st.lastSince
           /\ seen' = st.seen
           /\ rowIndex' = st.rowIndex
           /\ rendered' = st.rendered
           /\ skipped' = st.skipped
    /\ resorted' = (SortFrom(<<>>, reqs) # reqs)
    /\ lastFetch' = "ok"
    /\ timers' = {POLL_DELAY}
    /\ pc' = "idle"
    /\ UNCHANGED <<feed, stderr, reqSince, startSince>>
    /\ UNCHANGED <<ctxVars, auxVars>>

\* A rejected fetch that is not followed by a new timer.
PollRejectedNoRetry ==
    /\ pc = "fetching"
    /\ lastFetch' = "error"
    /\ timers' = {}
    /\ pc' = "idle"
    /\ UNCHANGED <<feed, lastSince, seen, rowIndex, rendered, stderr, reqSince,
                   startSince, skipped, resorted>>
    /\ UNCHANGED <<ctxVars, auxVars>>

\* A rejected fetch reported on stderr.
PollRejectedLogged ==
    /\ pc = "fetching"
    /\ lastFetch' = "error"
    /\ stderr' = stderr + 1
    /\ timers' = {POLL_DELAY}
    /\ pc' = "idle"
    /\ UNCHANGED <<feed, lastSince, seen, rowIndex, rendered, reqSince, startSince, skipped, resorted>>
    /\ UNCHANGED <<ctxVars, auxVars>>

\* The awaited getRequests rejects: the catch block swallows it, the timer
\* is re-armed.
PollRejected ==
    /\ pc = "fetching"
    /\ lastFetch' = "error"
    /\ timers' = {POLL_DELAY}
    /\ pc' = "idle"
    /\ UNCHANGED <<feed, lastSince, seen, rowIndex, rendered, stderr, reqSince,
                   startSince, skipped, resorted>>
    /\ UNCHANGED <<ctxVars, auxVars>>

\* The process is interrupted: pending timers and requests die with it.
Interrupt ==
    /\ pc # "stopped"
    /\ pc' = "stopped"
    /\ timers' = {}
    /\ UNCHANGED <<feed, lastSince, seen, rowIndex, rendered, stderr, reqSince,
                   lastFetch, startSince, skipped, resorted>>
    /\ UNCHANGED <<ctxVars, auxVars>>

PollOk == \E reqs \in HonestResponses(reqSince) : PollResolved(reqs)

PollOkAny == \E reqs \in AnyResponses : PollResolved(reqs)

ArriveAny == \E id \in ReqIds : Arrive(id)

NextTail ==
    \/ ArriveAny
    \/ PollCall
    \/ PollOk
    \/ PollRejected
    \/ Interrupt

NextTailAny ==
    \/ PollCall
    \/ PollOkAny
    \/ PollRejected
    \/ Interrupt

\* listen against a backend that honours the since filter.
TailSpec == InitTail /\ [][NextTail]_vars

\* listen against a backend whose responses are arbitrary.
TailAnySpec == InitTailAny /\ [][NextTailAny]_vars

\* Timers fire and no fetch is awaited forever.  PollRejected is enabled
\* exactly while a fetch is awaited and every way the fetch settles disables
\* it, so its weak fairness says that each awaited fetch settles, one way or
\* the other.
TickFair ==
    /\ InitTail /\ [][NextTail]_vars
    /\ WF_vars(PollCall)
    /\ WF_vars(PollRejected)

\* Fair polling where fetches eventually succeed: timers fire, awaited
\* fetches settle, and fetches succeed again and again.
TailFair ==
    /\ InitTailLookBack /\ [][NextTail]_vars
    /\ WF_vars(PollCall)
    /\ WF_vars(PollRejected)
    /\ SF_vars(PollOk)

\* The operations of config.ts applied in any order from any workspace,
\* starting from an empty document.
InitOps ==
    /\ InitTail
    /\ feed = {}
    /\ startSince = 0

NextCtx ==
    \/ DoSetAny
    \/ DoClearAny
    \/ DoPushAny

CtxSpec == InitOps /\ [][NextCtx]_vars

\* Commands that establish and clear the active bin, followed by one command
\* that resolves its bin through getBinOrExit.
NextCmd ==
    \/ DoEstablishAny
    \/ DoClearAny
    \/ GetBinOrExitStartAny
    \/ GetBinResolvedAny
    \/ GetBinRejected

CmdSpec == InitOps /\ [][NextCmd]_vars

\* ------------------------------------------------------------------------
\* listen as a command: bin resolution, then the poll loop
\* ------------------------------------------------------------------------

\* legacy listen: setTimeout(poll, 1500)
LEGACY_POLL_DELAY == 1500

\* legacy listen: if (requestsCache.length > 10) requestsCache.pop()
LEGACY_CACHE_LIMIT == 10

\* No poll loop is running.
NoTail ==
    /\ feed = {}
    /\ startSince = 0
    /\ lastSince = startSince
    /\ seen = {}
    /\ rowIndex = 0
    /\ rendered = <<>>
    /\ stderr = 0
    /\ pc = "starting"
    /\ timers = {}
    /\ reqSince = startSince
    /\ lastFetch = "none"
    /\ skipped = {}
    /\ resorted = FALSE

\* listen has been invoked and has not called poll() yet.
InitListen ==
    /\ NoTail
    /\ InitCtx
    /\ InitAux

\* The bin captured a request before listen was invoked.
ListenArrive ==
    /\ pc = "starting"
    /\ cmd.pc = "none"
    /\ ArriveAny

\* An earlier command made a bin the active one.
ListenEstablished ==
    /\ pc = "starting"
    /\ DoEstablishAny

\* listen: const binId = await getBinOrExit(opts), up to the await.
ListenGetBinOrExit ==
    /\ pc = "starting"
    /\ GetBinOrExitStartAny

\* listen: api.getBin resolves inside getBinOrExit.
ListenGetBinResolved ==
    /\ pc = "starting"
    /\ GetBinResolvedAny

\* listen: api.getBin rejects inside getBinOrExit; the process exits.
ListenGetBinRejected ==
    /\ pc = "starting"
    /\ GetBinRejected

\* listen after getBinOrExit returned: the watermark, the seen set and the
\* row counter are set up and poll() is called.
ListenBegin ==
    /\ pc = "starting"
    /\ cmd.pc = "returned"
    /\ pc' = "idle"
    /\ timers' = {0}
    /\ UNCHANGED <<feed, lastSince, seen, rowIndex, rendered, stderr, reqSince,
                   lastFetch, startSince, skipped, resorted>>
    /\ UNCHANGED <<ctxVars, auxVars>>

\* The poll loop of listen is the one that was started by ListenBegin.
ListenPollOk ==
    /\ cmd.pc = "returned"
    /\ PollOk

ListenPollRejected ==
    /\ cmd.pc = "returned"
    /\ PollRejected

\* legacy `listen [binId]` up to its first poll(): the id is the argument
\* or the stored active bin; it is stored as the active bin and polled,
\* and api.getBin is not called.
LegacyListen(binId, workspace) ==
    /\ pc = "starting"
    /\ cmd.pc = "none"
    /\ LET id == OrElse(binId, GetActiveBin(conf, FALSE, workspace))
       IN  IF id = {}
           THEN /\ cmd' = [cmd EXCEPT !.pc = "exited", !.workspace = workspace,
                                      !.error = "No bin specified", !.exit = {0}]
                /\ UNCHANGED <<conf, pc, timers>>
           ELSE /\ conf' = SetActiveBin(conf, CHOOSE x \in id : TRUE, FALSE, workspace)
                /\ cmd' = [cmd EXCEPT !.pc = "legacy", !.bin = binId,
                                      !.workspace = workspace, !.candidate = id]
                /\ pc' = "idle"
                /\ timers' = {0}
    /\ UNCHANGED <<feed, lastSince, seen, rowIndex, rendered, stderr, reqSince,
                   lastFetch, startSince, skipped, resorted>>
    /\ UNCHANGED auxVars

\* The forEach body of the legacy poll without the pop that bounds the
\* buffer.
LegacyRenderOneUncapped(st, id) ==
    [lastSince |-> Max(st.lastSince, TsOf(id) + 1),
     rendered  |-> Append(st.rendered,
                          [idx |-> 0, id |-> id, ts |-> TsOf(id), batch |-> st.batch]),
     batch     |-> st.batch,
     cache     |-> <<id>> \o st.cache]

\* The forEach body of the legacy poll: print the row, advance
\* lastTimestamp, put the request in front of the buffer.
LegacyRenderOne(st, id) ==
    [lastSince |-> Max(st.lastSince, TsOf(id) + 1),
     rendered  |-> Append(st.rendered,
                          [idx |-> 0, id |-> id, ts |-> TsOf(id), batch |-> st.batch]),
     batch     |-> st.batch,
     cache     |-> Slice0(<<id>> \o st.cache, LEGACY_CACHE_LIMIT)]

\* A forEach that hands control back after its first element.
LegacyForEachFirstOnly(st, reqs) ==
    IF reqs = <<>> THEN st ELSE LegacyRenderOne(st, Head(reqs))

RECURSIVE LegacyForEach(_, _)
\* reqs.forEach(...) of the legacy poll: synchronous, the whole batch.
LegacyForEach(st, reqs) ==
    IF reqs = <<>> THEN st
    ELSE LegacyForEach(LegacyRenderOne(st, Head(reqs)), Tail(reqs))

\* The first two elements of the buffer once a whole batch is in it: the
\* batch in descending timestamp order, then what the buffer held.
LegacyFrontAfter(cache, reqs) ==
    LET sorted == SortByTimestamp(reqs)
        newest == [i \in 1..Len(sorted) |-> sorted[Len(sorted) + 1 - i]]
    IN  Slice0(newest \o cache, 2)

\* The awaited getRequests of the legacy poll resolves (no --method filter):
\* the batch is applied in one run of the callback, and the front of the
\* buffer between batches is recorded.
LegacyPollResolved(reqs) ==
    /\ pc = "fetching"
    /\ cmd.pc = "legacy"
    /\ LET st == LegacyForEach([lastSince |-> lastSince, rendered |-> rendered,
                                batch |-> Len(rendered), cache |-> requestsCache],
                               SortByTimestamp(reqs))
       IN  /\ lastSince' = st.lastSince
           /\ rendered' = st.rendered
           /\ requestsCache' = st.cache
    /\ shortcut' = [shortcut EXCEPT !.boundaries = @ \cup {LegacyFrontAfter(requestsCache, reqs)}]
    /\ resorted' = (SortFrom(<<>>, reqs) # reqs)
    /\ lastFetch' = "ok"
    /\ timers' = {LEGACY_POLL_DELAY}
    /\ pc' = "idle"
    /\ UNCHANGED <<feed, seen, rowIndex, stderr, reqSince, startSince, skipped>>
    /\ UNCHANGED <<ctxVars, res, dif, ops, call, procs>>

\* The awaited getRequests of the legacy poll rejects: quietly retried.
LegacyPollRejected ==
    /\ pc = "fetching"
    /\ cmd.pc = "legacy"
    /\ lastFetch' = "error"
    /\ timers' = {LEGACY_POLL_DELAY}
    /\ pc' = "idle"
    /\ UNCHANGED <<feed, lastSince, seen, rowIndex, rendered, stderr, reqSince,
                   startSince, skipped, resorted>>
    /\ UNCHANGED <<ctxVars, auxVars>>

\* A key is pressed while the legacy listen is tailing: the handler reads
\* requestsCache[0] and requestsCache[1] before anything else.
Keypress(key) ==
    /\ cmd.pc = "legacy"
    /\ pc \in {"idle", "fetching"}
    /\ shortcut' = [shortcut EXCEPT
                       !.fired = TRUE,
                       !.key = key,
                       !.latest = IF Len(requestsCache) >= 1 THEN {requestsCache[1]} ELSE {},
                       !.prev = IF Len(requestsCache) >= 2 THEN {requestsCache[2]} ELSE {}]
    /\ UNCHANGED <<tailVars, ctxVars, requestsCache, res, dif, ops, call, procs>>

\* The keys the handler has a case for: inspect, replay, diff.
ShortcutKeys == {"return", "r", "d"}

KeypressAny == \E key \in ShortcutKeys : Keypress(key)

LegacyListenAny ==
    \E binId \in {{}} \cup {{id} : id \in BinIds}, workspace \in Workspaces :
        LegacyListen(binId, workspace)

LegacyPollOk == \E reqs \in HonestResponses(reqSince) : LegacyPollResolved(reqs)

\* One invocation of listen, of either version of the command, after
\* earlier commands stored a context.
NextListen ==
    \/ ListenEstablished
    \/ ListenGetBinOrExit
    \/ ListenGetBinResolved
    \/ ListenGetBinRejected
    \/ ListenBegin
    \/ LegacyListenAny
    \/ ListenArrive
    \/ PollCall
    \/ ListenPollOk
    \/ ListenPollRejected
    \/ LegacyPollOk
    \/ LegacyPollRejected
    \/ Interrupt

ListenSpec == InitListen /\ [][NextListen]_vars

\* The legacy listen tailing a bin that keeps capturing requests, with
\* keys pressed at any moment between the callbacks.
NextShortcut ==
    \/ LegacyListenAny
    \/ ArriveAny
    \/ PollCall
    \/ LegacyPollOk
    \/ LegacyPollRejected
    \/ KeypressAny
    \/ Interrupt

ShortcutSpec == InitListen /\ [][NextShortcut]_vars

\* Rows a legacy listen may print when the backend repeats records.
MaxRows == 3

\* The records the legacy listen displayed before the starting point, oldest
\* first: ids below those of the requests that arrive later.
OldIds(k) == [i \in 1..k |-> i - k]

\* How many records were displayed before: none, one short of the buffer
\* limit, the limit.
BufferFills == {0, LEGACY_CACHE_LIMIT - 1, LEGACY_CACHE_LIMIT}

\* A legacy listen of bin 1 in /w1 that has displayed k records, one per
\* tick, and waits for its next tick.
InitLegacyAt(k) ==
    /\ feed = Range(OldIds(k))
    /\ rendered = [i \in 1..k |-> [idx |-> 0, id |-> OldIds(k)[i],
                                   ts |-> TsOf(OldIds(k)[i]), batch |-> i - 1]]
    /\ requestsCache = [i \in 1..k |-> OldIds(k)[k + 1 - i]]
    /\ lastSince = IF k = 0 THEN TsOf(1 - LEGACY_CACHE_LIMIT) ELSE TsOf(0) + 1
    /\ lastFetch = IF k = 0 THEN "none" ELSE "ok"
    /\ timers = IF k = 0 THEN {0} ELSE {LEGACY_POLL_DELAY}
    /\ shortcut = [NoShortcut EXCEPT
                      !.boundaries = {Slice0([i \in 1..j |-> OldIds(k)[j + 1 - i]], 2) :
                                         j \in 0..k}]
    /\ startSince = TsOf(1 - LEGACY_CACHE_LIMIT)
    /\ reqSince = lastSince
    /\ seen = {}
    /\ rowIndex = 0
    /\ stderr = 0
    /\ pc = "idle"
    /\ skipped = {}
    /\ resorted = FALSE
    /\ conf = SetActiveBin(EmptyConf, 1, FALSE, "/w1")
    /\ cmd = [NoCmd EXCEPT !.pc = "legacy", !.bin = {1}, !.candidate = {1}]
    /\ res = NoRes
    /\ dif = NoDif
    /\ ops = 0
    /\ call = NoCall
    /\ procs = NoProcs

InitBuffer == \E k \in BufferFills : InitLegacyAt(k)

\* The legacy listen with a filling buffer.
NextBuffer ==
    \/ ArriveAny
    \/ PollCall
    \/ LegacyPollOk
    \/ LegacyPollRejected
    \/ Interrupt

BufferSpec == InitBuffer /\ [][NextBuffer]_vars

\* The poll loop of a listen that was started directly (current version).
CurrentPollOk ==
    /\ cmd.pc = "none"
    /\ PollOk

CurrentPollRejected ==
    /\ cmd.pc = "none"
    /\ PollRejected

\* The poll loop of either version of listen: the current one from its
\* start, the legacy one from any fill of its buffer.
NextTicks ==
    \/ ArriveAny
    \/ PollCall
    \/ CurrentPollOk
    \/ CurrentPollRejected
    \/ LegacyPollOk
    \/ LegacyPollRejected
    \/ Interrupt

TicksSpec == (InitTail \/ InitBuffer) /\ [][NextTicks]_vars

\* Responses of getRequests(id, since) of a backend that may return one
\* record of the bin again, displayed or not, besides those it owes.
RepeatingResponses(since) ==
    LET must == {id \in feed : TsOf(id) >= since}
    IN  WithExtra(Perms(must), feed)

\* The legacy poll resolves on such a response, while fewer than MaxRows
\* rows were printed.
LegacyPollRepeat ==
    /\ Len(rendered) < MaxRows
    /\ \E reqs \in RepeatingResponses(reqSince) : LegacyPollResolved(reqs)

\* The legacy listen against a backend that may repeat records, with keys
\* pressed between the callbacks.
NextRepeat ==
    \/ ArriveAny
    \/ PollCall
    \/ LegacyPollRepeat
    \/ LegacyPollRejected
    \/ KeypressAny
    \/ Interrupt

RepeatSpec == InitLegacyAt(0) /\ [][NextRepeat]_vars

\* ------------------------------------------------------------------------
\* Reference resolution and diff as single calls
\* ------------------------------------------------------------------------

\* One call of requireRefOrPick on any ref, snapshot and terminal.
InitRef ==
    /\ NoTail
    /\ InitCtx
    /\ requestsCache = <<>>
    /\ dif = NoDif
    /\ InitRest
    /\ res \in RefCalls

NextRef ==
    \/ RequireRefOrPickCall
    \/ PickSelectedAny
    \/ PickCancelled

RefSpec == InitRef /\ [][NextRef]_vars

\* One comparison of the diff command on any pair of records.
InitDiff ==
    /\ NoTail
    /\ InitCtx
    /\ requestsCache = <<>>
    /\ res = NoRes
    /\ InitRest
    /\ dif \in {[NoDif EXCEPT !.pc = "called", !.left = p.left, !.right = p.right] :
                    p \in DiffPairs}

NextDiff == DiffCompare

DiffSpec == InitDiff /\ [][NextDiff]_vars

\* ------------------------------------------------------------------------
\* Recent bins: bounded histories on a filled list
\* ------------------------------------------------------------------------

\* Number of context operations run after the drawn starting context.
MaxOps == 2

\* Bin ids used on a starting context in which bins 1..n were made active
\* in turn: the oldest, the newest of a full list, and one never used.
RecentIds == {1, RECENT_LIMIT, RECENT_LIMIT + 1}

RECURSIVE EstablishedConf(_)
\* The document after bins 1..n were made the active bin of /w1, one after
\* the other (setActiveBin and pushRecentBin each time).
EstablishedConf(n) ==
    IF n = 0 THEN EmptyConf
    ELSE PushRecentBin(SetActiveBin(EstablishedConf(n - 1), n, FALSE, "/w1"),
                       n, FALSE, "/w1")

InitRecent ==
    /\ NoTail
    /\ cmd = NoCmd
    /\ InitAux
    /\ conf \in {EstablishedConf(n) : n \in 0..RECENT_LIMIT}

\* setActiveBin(id, global) as one of the counted operations.
RecentSet(id, global, workspace) ==
    /\ ops < MaxOps
    /\ ops' = ops + 1
    /\ conf' = SetActiveBin(conf, id, global, workspace)
    /\ UNCHANGED <<cmd, tailVars, requestsCache, res, dif, call, procs, shortcut>>

\* clearActiveBin(global) as one of the counted operations.
RecentClear(global, workspace) ==
    /\ ops < MaxOps
    /\ ops' = ops + 1
    /\ conf' = ClearActiveBin(conf, global, workspace)
    /\ UNCHANGED <<cmd, tailVars, requestsCache, res, dif, call, procs, shortcut>>

\* pushRecentBin(id, global) as one of the counted operations.
RecentPush(id, global, workspace) ==
    /\ ops < MaxOps
    /\ ops' = ops + 1
    /\ conf' = PushRecentBin(conf, id, global, workspace)
    /\ UNCHANGED <<cmd, tailVars, requestsCache, res, dif, call, procs, shortcut>>

RecentSetAny == \E id \in RecentIds, global \in BOOLEAN, workspace \in Workspaces :
                    RecentSet(id, global, workspace)

RecentClearAny == \E global \in BOOLEAN, workspace \in Workspaces :
                      RecentClear(global, workspace)

RecentPushAny == \E id \in RecentIds, global \in BOOLEAN, workspace \in Workspaces :
                     RecentPush(id, global, workspace)

NextRecent ==
    \/ RecentSetAny
    \/ RecentClearAny
    \/ RecentPushAny

\* Set, clear and push in any workspace and scope, on a context in which up
\* to RECENT_LIMIT bins were used before.
RecentSpec == InitRecent /\ [][NextRecent]_vars

\* ------------------------------------------------------------------------
\* listen --since (index.ts: parseDurationMs, the initial watermark)
\* ------------------------------------------------------------------------

\* Longest --since token.
MaxToken == 3

\* The characters --since tokens are made of: digits, unit letters in both
\* cases, a blank and a letter that is no unit.
TokenChars == {"0", "1", "5", "m", "s", "h", "M", "S", "H", " ", "x"}

\* c.toLowerCase()
LowerChar(c) ==
    IF c = "M" THEN "m" ELSE IF c = "S" THEN "s" ELSE IF c = "H" THEN "h" ELSE c

\* s.toLowerCase()
ToLowerCase(s) == [i \in DOMAIN s |-> LowerChar(s[i])]

RECURSIVE TrimStart(_)
TrimStart(s) ==
    IF s # <<>> /\ Head(s) = " " THEN TrimStart(Tail(s)) ELSE s

RECURSIVE TrimEnd(_)
TrimEnd(s) ==
    IF s # <<>> /\ s[Len(s)] = " " THEN TrimEnd(SubSeq(s, 1, Len(s) - 1)) ELSE s

\* value.trim()
Trim(s) == TrimEnd(TrimStart(s))

RECURSIVE LeadingDigits(_)
\* The longest digits-only prefix of s: what (\d+) captures at the start.
LeadingDigits(s) ==
    IF s # <<>> /\ IsDigits(<<Head(s)>>) THEN <<Head(s)>> \o LeadingDigits(Tail(s))
    ELSE <<>>

\* value.trim().match(/^(\d+)(ms|s|m|h)?$/i): no match, or the two groups
\* (the second one empty when the unit is absent).
MatchDuration(value) ==
    LET trimmed == Trim(value)
        amount  == LeadingDigits(trimmed)
        unit    == SubSeq(trimmed, Len(amount) + 1, Len(trimmed))
    IN  IF amount # <<>> /\ ToLowerCase(unit) \in {<<>>, <<"m", "s">>, <<"s">>, <<"m">>, <<"h">>}
        THEN {<<amount, unit>>}
        ELSE {}

\* parseDurationMs with a match that is sensitive to case.
ParseDurationMsCaseSensitive(value) ==
    IF value = {} \/ value = {<<>>} THEN {}
    ELSE LET match == MatchDuration(CHOOSE v \in value : TRUE)
         IN  IF match = {} THEN {}
             ELSE LET groups == CHOOSE g \in match : TRUE
                      amount == Number(groups[1])
                      unit   == IF groups[2] = <<>> THEN <<"m", "s">> ELSE groups[2]
                  IN  IF unit = <<"m", "s">> THEN {amount}
                      ELSE IF unit = <<"s">> THEN {amount * 1000}
                      ELSE IF unit = <<"m">> THEN {amount * 60000}
                      ELSE IF unit = <<"h">> THEN {amount * 3600000}
                      ELSE {}

\* parseDurationMs(value): the milliseconds, or undefined (no value).  The
\* argument is the option's value, absent when the option was not given.
ParseDurationMs(value) ==
    IF value = {} \/ value = {<<>>} THEN {}
    ELSE LET match == MatchDuration(CHOOSE v \in value : TRUE)
         IN  IF match = {} THEN {}
             ELSE LET groups == CHOOSE g \in match : TRUE
                      amount == Number(groups[1])
                      unit   == ToLowerCase(IF groups[2] = <<>> THEN <<"m", "s">>
                                            ELSE groups[2])
                  IN  IF unit = <<"m", "s">> THEN {amount}
                      ELSE IF unit = <<"s">> THEN {amount * 1000}
                      ELSE IF unit = <<"m">> THEN {amount * 60000}
                      ELSE IF unit = <<"h">> THEN {amount * 3600000}
                      ELSE {}

\* listen: let lastSince = Date.now(); if (sinceMs) lastSince = Date.now() - sinceMs
InitialWatermark(now, sinceMs) ==
    IF sinceMs # {} /\ sinceMs # {0}
    THEN now - (CHOOSE ms \in sinceMs : TRUE)
    ELSE now

\* The --since option: absent, or any token of up to MaxToken characters.
SinceOptions == {{}} \cup {{token} : token \in SeqsUpTo(TokenChars, MaxToken)}

\* Values of Date.now() when listen starts (ms, counted from an origin
\* late enough for every look-back of the tokens above).
Nows == {2000000000, 2000003000}

\* listen computes its initial watermark from --since.
ListenSince ==
    /\ call.fn = "listen --since"
    /\ call.pc = "called"
    /\ LET sinceMs == ParseDurationMs(call.since)
       IN  call' = [call EXCEPT !.pc = "done", !.sinceMs = sinceMs,
                                !.lastSince = InitialWatermark(call.now, sinceMs)]
    /\ UNCHANGED <<tailVars, ctxVars, requestsCache, res, dif, ops, procs, shortcut>>

InitSince ==
    /\ NoTail
    /\ InitCtx
    /\ requestsCache = <<>>
    /\ res = NoRes
    /\ dif = NoDif
    /\ ops = 0
    /\ procs = NoProcs
    /\ shortcut = NoShortcut
    /\ call \in {[fn |-> "listen --since", pc |-> "called", since |-> since,
                  now |-> now, sinceMs |-> {}, lastSince |-> now] :
                     since \in SinceOptions, now \in Nows}

NextSince == ListenSince

\* One start of listen with any --since option.
SinceSpec == InitSince /\ [][NextSince]_vars

\* ------------------------------------------------------------------------
\* Workspace resolution (config.ts: getGitRoot, getWorkspaceKey)
\* ------------------------------------------------------------------------

\* Deepest directory below the filesystem root.
MaxDepth == 3

\* Paths are sequences of directory names below the root; <<>> is the root.
DirNames == {"a", "b"}

\* The directories of the filesystem.
Dirs == SeqsUpTo(DirNames, MaxDepth)

RECURSIVE ResolveFrom(_, _)
\* path.resolve on an absolute path: `.` segments are dropped and `..`
\* segments go up one directory (staying at the root).
ResolveFrom(resolved, segments) ==
    IF segments = <<>> THEN resolved
    ELSE IF Head(segments) = "." THEN ResolveFrom(resolved, Tail(segments))
    ELSE IF Head(segments) = ".."
         THEN ResolveFrom(IF resolved = <<>> THEN <<>>
                          ELSE SubSeq(resolved, 1, Len(resolved) - 1),
                          Tail(segments))
    ELSE ResolveFrom(Append(resolved, Head(segments)), Tail(segments))

\* path.resolve(dir)
Resolve(dir) == ResolveFrom(<<>>, dir)

\* A dirname under which a directory is its own parent.
DirnameSelf(dir) == dir

\* path.dirname(dir): the parent directory; the root is its own parent.
Dirname(dir) ==
    IF dir = <<>> THEN <<>> ELSE SubSeq(dir, 1, Len(dir) - 1)

\* Start directories as they may be written: a directory, possibly followed
\* by a `.` or `..` segment.
StartDirs == Dirs \cup {Append(d, s) : d \in Dirs, s \in {".", ".."}}

\* The sets of directories that contain a `.git` entry: at most two.
MarkerSets == {{}} \cup {{d, e} : d \in Dirs, e \in Dirs}

\* getWorkspaceKey() is entered: getGitRoot(startDir) sets current to
\* path.resolve(startDir).
InitWalk ==
    /\ NoTail
    /\ InitCtx
    /\ requestsCache = <<>>
    /\ res = NoRes
    /\ dif = NoDif
    /\ ops = 0
    /\ procs = NoProcs
    /\ shortcut = NoShortcut
    /\ call \in {[fn |-> "getWorkspaceKey", pc |-> "walking", start |-> start,
                  markers |-> markers, current |-> Resolve(start), steps |-> 0,
                  out |-> {}] :
                     start \in StartDirs, markers \in MarkerSets}

\* One iteration of the while (true) loop of getGitRoot, and the return of
\* getWorkspaceKey when the loop ends.
GetGitRootStep ==
    /\ call.fn = "getWorkspaceKey"
    /\ call.pc = "walking"
    /\ call' = IF call.current \in call.markers
               THEN [call EXCEPT !.pc = "done", !.out = {call.current}]
               ELSE LET parent == Dirname(call.current)
                    IN  IF parent = call.current
                        THEN [call EXCEPT !.pc = "done", !.out = {Resolve(call.start)}]
                        ELSE [call EXCEPT !.current = parent, !.steps = @ + 1]
    /\ UNCHANGED <<tailVars, ctxVars, requestsCache, res, dif, ops, procs, shortcut>>

NextWalk == GetGitRootStep

\* One call of getWorkspaceKey; the loop keeps running while it can.
WalkSpec == InitWalk /\ [][NextWalk]_vars /\ WF_vars(GetGitRootStep)

\* ------------------------------------------------------------------------
\* The effective base URL (config.ts: getBaseUrl)
\* ------------------------------------------------------------------------

\* The prefix getBaseUrl tests for, one character per element.
HTTP_PREFIX == <<"h", "t", "t", "p">>

\* `http://`
HTTP_SCHEME == HTTP_PREFIX \o <<":", "/", "/">>

\* The schemes a configured URL may carry; <<>> is a URL without a scheme.
UrlSchemes ==
    {<<>>, HTTP_SCHEME, <<"h", "t", "t", "p", "s", ":", "/", "/">>,
     <<"f", "t", "p", ":", "/", "/">>, <<"w", "s", ":", "/", "/">>}

\* Host names, some of which begin with the letters of the tested prefix.
UrlHosts ==
    {<<"x">>, <<"x", ".", "i", "o">>, <<"h", "t">>, HTTP_PREFIX,
     HTTP_PREFIX \o <<"b", "i", "n">>, <<"h", "t", "t", "p", "s">>}

\* URLs that CURLME_API_URL or the stored baseUrl may hold.
Urls == {scheme \o host : scheme \in UrlSchemes, host \in UrlHosts}

\* getBaseUrl(): process.env.CURLME_API_URL || config.get('baseUrl'), with
\* `http://` put in front unless the value starts with `http`. env is the
\* set of the override, empty when the variable is not set; an override
\* that is the empty string is falsy and gives way to the stored value.
GetBaseUrl(env, stored) ==
    LET url == IF env /= {} /\ env /= {<<>>}
               THEN CHOOSE u \in env : TRUE
               ELSE stored
    IN  IF url /= <<>> /\ ~StartsWith(url, HTTP_PREFIX)
        THEN HTTP_SCHEME \o url
        ELSE url

\* A process with some CURLME_API_URL and some stored baseUrl is about to
\* call getBaseUrl.
InitUrl ==
    /\ NoTail
    /\ cmd = NoCmd
    /\ requestsCache = <<>>
    /\ res = NoRes
    /\ dif = NoDif
    /\ ops = 0
    /\ procs = NoProcs
    /\ shortcut = NoShortcut
    /\ \E stored \in Urls : conf = [baseUrl |-> stored]
    /\ call \in {[fn |-> "getBaseUrl", pc |-> "called", env |-> env, out |-> {}] :
                    env \in {{}, {<<>>}} \cup {{u} : u \in Urls}}

\* getBaseUrl() returns.
GetBaseUrlCall ==
    /\ call.fn = "getBaseUrl"
    /\ call.pc = "called"
    /\ call' = [call EXCEPT !.pc = "done",
                            !.out = {GetBaseUrl(call.env, conf["baseUrl"])}]
    /\ UNCHANGED <<tailVars, ctxVars, requestsCache, res, dif, ops, procs, shortcut>>

NextUrl == GetBaseUrlCall

UrlSpec == InitUrl /\ [][NextUrl]_vars

\* ------------------------------------------------------------------------
\* Two processes on one configuration store (config.ts: setActiveBin,
\* pushRecentBin, step by step)
\* ------------------------------------------------------------------------

\* The processes that share the store.
ProcIds == {"p1", "p2"}

\* The key a workspace-scoped operation reads and writes back.
MapKey(op) ==
    IF op = "set" THEN "activeBinsByWorkspace" ELSE "recentBinsByWorkspace"

\* map[workspace] = id (setActiveBin), or map[workspace] = next
\* (pushRecentBin), on the map the process has read.
UpdatedMap(op, map, workspace, id) ==
    IF op = "set" THEN MapSet(map, workspace, id)
    ELSE LET current == IF workspace \in DOMAIN map THEN map[workspace] ELSE <<>>
             next    == Slice0(<<id>> \o Without(current, id), RECENT_LIMIT)
         IN  MapSet(map, workspace, next)

\* A store whose set keeps the entries of the stored map that the written
\* map lacks.
StoreMapMerged(c, key, map) ==
    LET stored == ConfGetMap(c, key)
    IN  ConfSet(c, key, [k \in DOMAIN stored \cup DOMAIN map |->
                            IF k \in DOMAIN map THEN map[k] ELSE stored[k]])

\* config.set(key, map): the stored value is replaced as a whole.
StoreMap(c, key, map) == ConfSet(c, key, map)

\* A process that is about to run a workspace-scoped operation.
NewProc(op, workspace, id) ==
    [op |-> op, workspace |-> workspace, id |-> id, pc |-> "start",
     map |-> <<>>, written |-> <<>>]

\* Two processes are about to run the same workspace-scoped operation,
\* set or push, each from its own working directory, on a store that is
\* empty or already holds bins of /w1.
InitProcs ==
    /\ NoTail
    /\ cmd = NoCmd
    /\ requestsCache = <<>>
    /\ res = NoRes
    /\ dif = NoDif
    /\ ops = 0
    /\ call = NoCall
    /\ shortcut = NoShortcut
    /\ conf \in {EstablishedConf(n) : n \in 0..NumBins}
    /\ procs \in {[p1 |-> NewProc(op, w1, id1), p2 |-> NewProc(op, w2, id2),
                   last |-> {}] :
                     op \in {"set", "push"}, w1 \in Workspaces, w2 \in Workspaces,
                     id1 \in BinIds, id2 \in BinIds}

\* const map = config.get(key) ?? {}
ProcRead(p) ==
    /\ procs[p].pc = "start"
    /\ procs' = [procs EXCEPT ![p].pc = "read",
                              ![p].map = ConfGetMap(conf, MapKey(procs[p].op))]
    /\ UNCHANGED <<conf, cmd, tailVars, requestsCache, res, dif, ops, call, shortcut>>

\* map[workspace] = ...; config.set(key, map).  pushRecentBin returns here.
ProcWriteMap(p) ==
    /\ procs[p].pc = "read"
    /\ LET me      == procs[p]
           written == UpdatedMap(me.op, me.map, me.workspace, me.id)
       IN  /\ conf' = StoreMap(conf, MapKey(me.op), written)
           /\ procs' = [procs EXCEPT ![p].pc = IF me.op = "set" THEN "wrote" ELSE "done",
                                     ![p].written = written,
                                     !.last = {p}]
    /\ UNCHANGED <<cmd, tailVars, requestsCache, res, dif, ops, call, shortcut>>

\* config.set('activeBinId', id), the last statement of setActiveBin.
ProcWriteLegacy(p) ==
    /\ procs[p].pc = "wrote"
    /\ conf' = ConfSet(conf, "activeBinId", procs[p].id)
    /\ procs' = [procs EXCEPT ![p].pc = "done"]
    /\ UNCHANGED <<cmd, tailVars, requestsCache, res, dif, ops, call, shortcut>>

ProcReadAny == \E p \in ProcIds : ProcRead(p)

ProcWriteMapAny == \E p \in ProcIds : ProcWriteMap(p)

ProcWriteLegacyAny == \E p \in ProcIds : ProcWriteLegacy(p)

NextProcs ==
    \/ ProcReadAny
    \/ ProcWriteMapAny
    \/ ProcWriteLegacyAny

ProcsSpec == InitProcs /\ [][NextProcs]_vars

Spec == TailSpec

\* ------------------------------------------------------------------------
\* Live tailing: properties
\* ------------------------------------------------------------------------

\* C1: within one listen invocation, whatever the backend returns (records
\* of earlier ticks again, the same id twice in one batch), no request id
\* is rendered more than once.
C1_RenderedAtMostOnce ==
    \A i, j \in DOMAIN rendered : rendered[i].id = rendered[j].id => i = j

\* A batch carried a record that was already printed (in an earlier tick or
\* earlier in the same batch) and it was skipped.
C1_Witness ==
    /\ lastFetch = "ok"
    /\ \E i \in DOMAIN rendered : rendered[i].id \in skipped

\* C2 as stated: each rendered row has a strictly greater timestamp than
\* the row rendered before it.
C2_StrictlyAscending ==
    \A i \in DOMAIN rendered :
        i > 1 => rendered[i - 1].ts < rendered[i].ts

\* C2 amended: each rendered row has a timestamp greater than or equal to
\* that of the row before it, and strictly greater when the two rows were
\* rendered in different ticks.
C2_Ascending ==
    \A i \in DOMAIN rendered :
        i > 1 => /\ rendered[i - 1].ts <= rendered[i].ts
                 /\ rendered[i - 1].batch # rendered[i].batch
                        => rendered[i - 1].ts < rendered[i].ts

\* A batch returned out of timestamp order was rendered in one tick: two
\* records that share a timestamp, followed by a record with a greater one.
C2_Witness ==
    /\ resorted
    /\ \E i, j \in DOMAIN rendered :
          /\ j = i + 1
          /\ rendered[i].ts = rendered[j].ts
    /\ \E i, j \in DOMAIN rendered :
          /\ j = i + 1
          /\ rendered[i].batch = rendered[j].batch
          /\ rendered[i].ts < rendered[j].ts

\* C3 as stated: every record the bin holds whose timestamp is at least
\* the initial watermark is eventually rendered (unless the process is
\* interrupted), whatever the order in which records become visible.
C3_EventuallyRendered ==
    \A id \in ReqIds :
        [](id \in feed /\ TsOf(id) >= startSince
              => <>(id \in {rendered[i].id : i \in DOMAIN rendered} \/ pc = "stopped"))

\* C4: a tick whose fetch fails changes neither the watermark, the seen set
\* nor the row counter, prints no row and prints no error.
C4_FailedTickChangesNothing ==
    [][(pc = "fetching" /\ pc' = "idle" /\ lastFetch' = "error")
          => /\ lastSince' = lastSince
             /\ seen' = seen
             /\ rowIndex' = rowIndex
             /\ rendered' = rendered
             /\ stderr' = stderr]_vars

\* A fetch failed after rows had been rendered and the watermark advanced.
C4_Witness ==
    /\ lastFetch = "error"
    /\ pc = "idle"
    /\ rendered # <<>>
    /\ lastSince > startSince

\* C5: after every tick, succeeded or failed, the next one is scheduled
\* with the fixed delay, so the loop polls again and again until the
\* process is interrupted.
C5_NeverStops ==
    /\ [](pc = "idle" /\ lastFetch # "none" => timers = {POLL_DELAY})
    /\ []<>(pc = "fetching" \/ pc = "stopped")

\* A tick is under way after a failed tick.
C5_Witness ==
    /\ lastFetch = "error"
    /\ pc = "fetching"



\* ------------------------------------------------------------------------
\* Bin context: properties
\* ------------------------------------------------------------------------

\* The entry of a workspace in activeBinsByWorkspace, as an optional value.
EntryOf(c, workspace) ==
    IF "activeBinsByWorkspace" \in DOMAIN c
       /\ workspace \in DOMAIN c["activeBinsByWorkspace"]
    THEN {c["activeBinsByWorkspace"][workspace]}
    ELSE {}

\* The stored value of a key, as an optional value.
Stored(c, key) == IF key \in DOMAIN c THEN {c[key]} ELSE {}

\* C6: get(true) is globalActiveBinId alone; get(false) from a workspace is
\* its own entry if present, else the legacy activeBinId if present, else
\* globalActiveBinId, else nothing.  Stated of the function on every
\* document reached and of the candidate a command reads from the store.
C6_GetPrecedence ==
    LET expected(global, workspace) ==
            IF global THEN Stored(conf, "globalActiveBinId")
            ELSE IF EntryOf(conf, workspace) # {} THEN EntryOf(conf, workspace)
            ELSE IF "activeBinId" \in DOMAIN conf THEN {conf["activeBinId"]}
            ELSE IF "globalActiveBinId" \in DOMAIN conf THEN {conf["globalActiveBinId"]}
            ELSE {}
    IN  /\ \A global \in BOOLEAN, workspace \in Workspaces :
            GetActiveBin(conf, global, workspace) = expected(global, workspace)
        /\ (cmd.pc = "resolving" /\ cmd.bin = {})
               => cmd.candidate = expected(cmd.global, cmd.workspace)

\* A command run from a workspace without an entry of its own reads the
\* legacy id, which differs from the global one.
C6_Witness ==
    /\ cmd.pc = "resolving"
    /\ cmd.bin = {}
    /\ ~cmd.global
    /\ EntryOf(conf, cmd.workspace) = {}
    /\ \E other \in Workspaces : EntryOf(conf, other) # {}
    /\ "activeBinId" \in DOMAIN conf
    /\ "globalActiveBinId" \in DOMAIN conf
    /\ conf["activeBinId"] # conf["globalActiveBinId"]
    /\ cmd.candidate = {conf["activeBinId"]}

\* C7: after set(id, false) in workspace W, W's entry and the legacy
\* activeBinId both equal id, get(false) from W returns id, and
\* globalActiveBinId and every other workspace's entry are as before.
C7_SetWorkspace ==
    [][\A id \in BinIds, workspace \in Workspaces :
          DoSet(id, FALSE, workspace)
              => /\ EntryOf(conf', workspace) = {id}
                 /\ Stored(conf', "activeBinId") = {id}
                 /\ GetActiveBin(conf', FALSE, workspace) = {id}
                 /\ Stored(conf', "globalActiveBinId") = Stored(conf, "globalActiveBinId")
                 /\ \A other \in Workspaces \ {workspace} :
                        EntryOf(conf', other) = EntryOf(conf, other)]_vars

\* Two workspaces hold different entries, the legacy id is one of them and
\* the global id is another id.
C7_Witness ==
    /\ EntryOf(conf, "/w1") # {}
    /\ EntryOf(conf, "/w2") # {}
    /\ EntryOf(conf, "/w1") # EntryOf(conf, "/w2")
    /\ Stored(conf, "activeBinId") = EntryOf(conf, "/w1")
    /\ Stored(conf, "globalActiveBinId") = EntryOf(conf, "/w2")

\* C8: clear(false) in workspace W removes W's entry and the legacy
\* activeBinId and leaves globalActiveBinId, every other workspace's entry
\* and all recent lists as they were.
C8_ClearWorkspace ==
    [][\A workspace \in Workspaces :
          DoClear(FALSE, workspace)
              => /\ EntryOf(conf', workspace) = {}
                 /\ Stored(conf', "activeBinId") = {}
                 /\ Stored(conf', "globalActiveBinId") = Stored(conf, "globalActiveBinId")
                 /\ \A other \in Workspaces \ {workspace} :
                        EntryOf(conf', other) = EntryOf(conf, other)
                 /\ Stored(conf', "recentBinsByWorkspace")
                        = Stored(conf, "recentBinsByWorkspace")]_vars

\* A workspace's entry and the legacy id are gone while the global id, the
\* other workspace's entry and both recent lists are still there.
C8_Witness ==
    /\ "activeBinsByWorkspace" \in DOMAIN conf
    /\ EntryOf(conf, "/w1") = {}
    /\ EntryOf(conf, "/w2") # {}
    /\ Stored(conf, "activeBinId") = {}
    /\ Stored(conf, "globalActiveBinId") # {}
    /\ GetRecentBins(conf, FALSE, "/w1") # <<>>
    /\ GetRecentBins(conf, FALSE, "/w2") # <<>>

\* C9: set(id, true) and clear(true) change nothing but globalActiveBinId:
\* the workspace map, the legacy activeBinId and the recent lists keep
\* their values.
C9_GlobalTouchesOnlyGlobal ==
    [][\A workspace \in Workspaces :
          (DoClear(TRUE, workspace) \/ \E id \in BinIds : DoSet(id, TRUE, workspace))
              => /\ Stored(conf', "activeBinsByWorkspace")
                        = Stored(conf, "activeBinsByWorkspace")
                 /\ Stored(conf', "activeBinId") = Stored(conf, "activeBinId")
                 /\ Stored(conf', "recentBinsByWorkspace")
                        = Stored(conf, "recentBinsByWorkspace")]_vars

\* The global id is set next to a workspace entry, a legacy id different
\* from it and a recent list.
C9_Witness ==
    /\ Stored(conf, "globalActiveBinId") # {}
    /\ Stored(conf, "activeBinId") # {}
    /\ Stored(conf, "activeBinId") # Stored(conf, "globalActiveBinId")
    /\ EntryOf(conf, "/w1") # {}
    /\ GetRecentBins(conf, FALSE, "/w1") # <<>>

\* C10: when the backend resolution of a command's bin fails, an error is
\* reported; the stored context of the command's scope is cleared if the id
\* came from the store, and the store is unchanged if it came from --bin.
C10_FailedResolution ==
    [][(cmd.pc = "resolving" /\ cmd'.pc = "exited")
          => /\ cmd'.error = "not found"
             /\ cmd'.exit = {1}
             /\ IF cmd.bin # {} THEN conf' = conf
                ELSE IF cmd.global THEN Stored(conf', "globalActiveBinId") = {}
                ELSE /\ EntryOf(conf', cmd.workspace) = {}
                     /\ Stored(conf', "activeBinId") = {}]_vars

\* A command that read its id from the workspace's stored context failed
\* to resolve it; the other workspace's entry is still stored.
C10_Witness ==
    /\ cmd.pc = "exited"
    /\ cmd.error = "not found"
    /\ cmd.bin = {}
    /\ ~cmd.global
    /\ cmd.candidate # {}
    /\ EntryOf(conf, cmd.workspace) = {}
    /\ \E other \in Workspaces : EntryOf(conf, other) # {}

\* C11 as stated: when getBinOrExit fails to resolve an id it read from the
\* stored context of a scope (no explicit --bin), getActiveBin for the same
\* scope and workspace no longer returns that id right afterwards.
C11_StaleNeverSticks ==
    [][(GetBinRejected /\ cmd.bin = {})
          => GetActiveBin(conf', cmd.global, cmd.workspace) # cmd.candidate]_vars

\* ------------------------------------------------------------------------
\* listen as a command: properties
\* ------------------------------------------------------------------------

\* C12 as stated: listen issues no request fetch before getBin has
\* succeeded for the candidate id, and when getBin fails the command ends
\* without ever polling.
C12_ResolvedBeforePolling ==
    /\ [][PollCall => cmd.pc = "returned" /\ cmd.ret # {}]_vars
    /\ [](cmd.pc = "exited" => pc # "fetching" /\ lastFetch = "none")

\* ------------------------------------------------------------------------
\* Request references: properties
\* ------------------------------------------------------------------------

\* The record r matches the token: its id equals it, starts with it, or its
\* short form equals it.
MatchesToken(r, token) ==
    \/ r.id = token
    \/ StartsWith(r.id, token)
    \/ ShortRequestId(r.id) = token

\* The positions of the snapshot records that match the ref of the call.
MatchingPositions == {i \in DOMAIN res.reqs : MatchesToken(res.reqs[i], res.ref)}

\* C13: for a non-empty ref that is not digits-only the outcome depends
\* only on the number of snapshot records that match it: none gives
\* NotFound, exactly one gives that record, several give the ambiguity
\* error, which differs from NotFound and returns none of the matches.
C13_OutcomeByMatchCount ==
    (res.pc = "done" /\ res.ref # <<>> /\ ~IsDigits(res.ref))
        => /\ ~res.shown
           /\ Cardinality(MatchingPositions) = 0
                 => res.out = {} /\ res.error = "not found"
           /\ Cardinality(MatchingPositions) = 1
                 => res.out = {res.reqs[i] : i \in MatchingPositions} /\ res.error = ""
           /\ Cardinality(MatchingPositions) > 1
                 => res.out = {} /\ res.error = "matches multiple requests"

\* A short form shared by two records of the snapshot was rejected as
\* ambiguous.
C13_Witness ==
    /\ res.pc = "done"
    /\ res.ref = ShortRequestId(res.ref)
    /\ Cardinality(MatchingPositions) = 2
    /\ \A i \in MatchingPositions : res.ref # res.reqs[i].id
    /\ res.error = "matches multiple requests"

\* C14: a digits-only ref n is a 1-based index into the snapshot and is not
\* matched against ids: it yields the n-th record when 1 <= n <= length of
\* the snapshot and NotFound otherwise (n = 0 included), never an ambiguity
\* error.
C14_DigitsAreIndexes ==
    (res.pc = "done" /\ IsDigits(res.ref))
        => /\ ~res.shown
           /\ LET n == Number(res.ref)
              IN  IF 1 <= n /\ n <= Len(res.reqs)
                  THEN res.out = {res.reqs[n]} /\ res.error = ""
                  ELSE res.out = {} /\ res.error = "not found"

\* The ref `2` picked the middle record of a 3-record snapshot although the
\* newest record's id is `2`.
C14_Witness ==
    /\ res.pc = "done"
    /\ res.ref = <<"2">>
    /\ Len(res.reqs) = 3
    /\ res.reqs[1].id = <<"2">>
    /\ res.out = {res.reqs[2]}

\* C15: without a ref and without a terminal the call fails with the
\* missing-ref error whatever the snapshot holds: no record is returned and
\* no picker is shown.
C15_MissingReference ==
    (res.pc \in {"picking", "done"} /\ res.ref = <<>> /\ ~res.tty)
        => /\ res.pc = "done"
           /\ res.error = "Missing <ref>"
           /\ res.out = {}
           /\ ~res.shown

\* The call failed for a missing ref on a snapshot that holds records.
C15_Witness ==
    /\ res.pc = "done"
    /\ res.ref = <<>>
    /\ ~res.tty
    /\ Len(res.reqs) >= 2
    /\ res.error = "Missing <ref>"

\* C16: a returned record is an element of the snapshot, a record returned
\* by the picker is one of its first 10 records, every call returns a
\* record or fails (never both), and an empty snapshot yields a failure.
C16_NoRecordFromThinAir ==
    /\ res.out \subseteq Range(res.reqs)
    /\ res.shown => /\ res.out \subseteq {res.reqs[i] : i \in DOMAIN res.reqs \cap 1..PICK_LIMIT}
                    /\ res.ref = <<>>
    /\ res.pc = "done" => (res.out = {}) # (res.error = "")
    /\ Cardinality(res.out) <= 1
    /\ (res.pc = "done" /\ res.reqs = <<>>) => res.out = {} /\ res.error # ""

\* The picker returned the last record of its page from a snapshot that
\* holds more records than the page.
C16_Witness ==
    /\ res.pc = "done"
    /\ res.shown
    /\ Len(res.reqs) > PICK_LIMIT
    /\ res.out = {res.reqs[PICK_LIMIT]}

LeftKeys == Range(Keys(dif.left.headers))

RightKeys == Range(Keys(dif.right.headers))

\* The keys whose values differ between the two records, a missing value
\* included.
DifferingKeys ==
    {key \in LeftKeys \cup RightKeys :
        HeaderValue(dif.left.headers, key) # HeaderValue(dif.right.headers, key)}

\* The header lines among the printed entries.
HeaderEntries ==
    SelectSeq(dif.entries, LAMBDA e :
        e.kind \in {"Header added", "Header removed", "Header changed"})

\* C18 as stated: 'No material differences found.' is printed exactly when
\* method, normalized path (an empty path counts as `/`), raw size and body
\* are all equal, so records whose paths are `` and `/` and that agree
\* otherwise get it.
C18_SignalIffEqual ==
    dif.pc = "done"
        => (dif.signal <=> /\ dif.left.method = dif.right.method
                           /\ PathOrRoot(dif.left.path) = PathOrRoot(dif.right.path)
                           /\ dif.left.size = dif.right.size
                           /\ dif.left.body = dif.right.body)

\* C19 as stated: for two records with the same method, path, size, body
\* and header keys that differ in the value of exactly one header, exactly
\* one entry is printed, a changed-header entry for that key, and 'No
\* material differences found.' is not printed.
C19_HeaderOnlyDifference ==
    (/\ dif.pc = "done"
     /\ dif.left.method = dif.right.method
     /\ dif.left.path = dif.right.path
     /\ dif.left.size = dif.right.size
     /\ dif.left.body = dif.right.body
     /\ LeftKeys = RightKeys
     /\ Cardinality(DifferingKeys) = 1)
        => /\ dif.entries = <<[kind |-> "Header changed",
                               key  |-> CHOOSE key \in DifferingKeys : TRUE]>>
           /\ ~dif.signal

\* C20: every header line is for a key whose values differ, each such key
\* has at most one line, the line says added when the key is absent on the
\* left, removed when it is absent on the right and changed otherwise, keys
\* with equal values have no line, and the number of header lines is
\* min(8, number of differing keys).
C20_HeaderEntries ==
    dif.pc = "done"
        => LET printed   == HeaderEntries
               differing == DifferingKeys
               leftKeys  == LeftKeys
               rightKeys == RightKeys
           IN  /\ \A i \in DOMAIN printed :
                     LET e == printed[i]
                     IN  /\ e.key \in differing
                         /\ e.kind = "Header added" <=> e.key \notin leftKeys
                         /\ e.kind = "Header removed"
                               <=> (e.key \in leftKeys /\ e.key \notin rightKeys)
                         /\ e.kind = "Header changed"
                               <=> (e.key \in leftKeys /\ e.key \in rightKeys)
                         /\ \A j \in DOMAIN printed : printed[j].key = e.key => i = j
               /\ Len(printed) = IF Cardinality(differing) < HEADER_CAP
                                 THEN Cardinality(differing)
                                 ELSE HEADER_CAP

\* Nine headers differ, some added, some removed and some changed while
\* another one is equal on both sides, and eight header lines were printed.
C20_Witness ==
    /\ dif.pc = "done"
    /\ Cardinality(DifferingKeys) = HEADER_CAP + 1
    /\ Len(HeaderEntries) = HEADER_CAP
    /\ \A kind \in {"Header added", "Header removed", "Header changed"} :
          \E i \in DOMAIN HeaderEntries : HeaderEntries[i].kind = kind

\* C21: the size line is printed exactly when the renderings of the two
\* sizes differ (bytes below 1024, else one-decimal KB, else one-decimal
\* MB), so two byte counts with the same rendering have no size line, and
\* 'No material differences found.' is not printed for records whose byte
\* counts differ.
C21_SizeEntryByRendering ==
    dif.pc = "done"
        => /\ (\E i \in DOMAIN dif.entries : dif.entries[i].kind = "Body size")
                 <=> Bytes(dif.left.size) # Bytes(dif.right.size)
           /\ dif.left.size # dif.right.size => ~dif.signal
           /\ Bytes(512) = [whole |-> 512, tenth |-> {}, unit |-> "B"]
           /\ Bytes(1075) = [whole |-> 1, tenth |-> {0}, unit |-> "KB"]
           /\ Bytes(1100000) = [whole |-> 1, tenth |-> {0}, unit |-> "MB"]

\* Two records that differ only in their byte counts, which render alike:
\* nothing was printed, neither a size line nor the closing line.
C21_Witness ==
    /\ dif.pc = "done"
    /\ dif.left.size # dif.right.size
    /\ Bytes(dif.left.size) = Bytes(dif.right.size)
    /\ dif.entries = <<>>
    /\ ~dif.signal
    /\ dif.left.method = dif.right.method
    /\ dif.left.path = dif.right.path
    /\ dif.left.body = dif.right.body

\* C22: comparing two records that are identical in every field prints no
\* entry and ends with 'No material differences found.'
C22_IdenticalRecords ==
    (dif.pc = "done" /\ dif.left = dif.right)
        => /\ dif.entries = <<>>
           /\ dif.signal

\* Two identical records that carry a header were compared.
C22_Witness ==
    /\ dif.pc = "done"
    /\ dif.left = dif.right
    /\ dif.left.headers # <<>>
    /\ dif.signal

\* ------------------------------------------------------------------------
\* Recent bins: properties
\* ------------------------------------------------------------------------

\* The recent list stored for a workspace (empty when there is none).
RecentOf(c, workspace) ==
    IF "recentBinsByWorkspace" \in DOMAIN c /\ workspace \in DOMAIN c["recentBinsByWorkspace"]
    THEN c["recentBinsByWorkspace"][workspace]
    ELSE <<>>

\* C23: a workspace-scoped push of id in workspace W replaces W's list
\* `current` by id followed by `current` without id, cut to 10 entries: id
\* is at the front and occurs once, a full list without id loses its oldest
\* entry, and the lists of other workspaces are unchanged.
C23_PushMovesToFront ==
    [][\A id \in RecentIds, W \in Workspaces :
          RecentPush(id, FALSE, W)
             => LET current == RecentOf(conf, W)
                    next    == RecentOf(conf', W)
                    others  == SelectSeq(current, LAMBDA x : x # id)
                IN  /\ next[1] = id
                    /\ \A i \in DOMAIN next : next[i] = id => i = 1
                    /\ Len(next) = IF Len(others) + 1 <= 10 THEN Len(others) + 1 ELSE 10
                    /\ \A i \in 2..Len(next) : next[i] = others[i - 1]
                    /\ \A V \in Workspaces \ {W} : RecentOf(conf', V) = RecentOf(conf, V)]_vars

\* An 11th distinct id was pushed on a full list: it is at the front, the
\* list still has 10 entries and the oldest id is gone.
C23_Witness ==
    /\ ops >= 1
    /\ Len(RecentOf(conf, "/w1")) = RECENT_LIMIT
    /\ RecentOf(conf, "/w1")[1] = RECENT_LIMIT + 1
    /\ \A i \in DOMAIN RecentOf(conf, "/w1") : RecentOf(conf, "/w1")[i] # 1

\* C24: after any sequence of set, clear and push operations in any
\* workspaces and scopes, every workspace's recent list has at most 10
\* entries and holds no id twice.
C24_RecentBounded ==
    \A W \in Workspaces :
        LET list == RecentOf(conf, W)
        IN  /\ Len(list) <= 10
            /\ \A i, j \in DOMAIN list : list[i] = list[j] => i = j

\* The oldest id of a full list was pushed again: it moved to the front of
\* a list that still has 10 entries, while another workspace has a list too.
C24_Witness ==
    /\ ops = MaxOps
    /\ Len(RecentOf(conf, "/w1")) = RECENT_LIMIT
    /\ RecentOf(conf, "/w1")[1] = 1
    /\ RecentOf(conf, "/w2") # <<>>

\* C25: the global scope has no recent list of its own: a push with
\* --global changes nothing in the stored document, and the list for the
\* global scope is the one-element list of globalActiveBinId when that is
\* set and empty otherwise, whatever recentBinsByWorkspace holds.
C25_GlobalHasNoList ==
    /\ [][\A id \in RecentIds, W \in Workspaces :
             RecentPush(id, TRUE, W) => conf' = conf]_vars
    /\ [](\A W \in Workspaces :
             GetRecentBins(conf, TRUE, W)
                = IF "globalActiveBinId" \in DOMAIN conf
                  THEN <<conf["globalActiveBinId"]>>
                  ELSE <<>>)

\* The global active bin is an id that is in no workspace's recent list,
\* while /w1 has a full list.
C25_Witness ==
    /\ ops = MaxOps
    /\ "globalActiveBinId" \in DOMAIN conf
    /\ conf["globalActiveBinId"] = RECENT_LIMIT + 1
    /\ Len(RecentOf(conf, "/w1")) = RECENT_LIMIT
    /\ \A i \in DOMAIN RecentOf(conf, "/w1") :
          RecentOf(conf, "/w1")[i] # RECENT_LIMIT + 1
    /\ GetRecentBins(conf, TRUE, "/w1") = <<RECENT_LIMIT + 1>>

\* ------------------------------------------------------------------------
\* listen --since: properties
\* ------------------------------------------------------------------------

\* The units of the duration grammar and their milliseconds.
UnitFactors ==
    {<<<<>>, 1>>, <<<<"m", "s">>, 1>>, <<<<"s">>, 1000>>, <<<<"m">>, 60000>>,
     <<<<"h">>, 3600000>>}

\* The look-back a token stands for when it has the form
\* <integer>(ms|s|m|h)?, unit in either case, no unit meaning ms; no value
\* when the token has another form.
LookBackOf(token) ==
    UNION {{Number(SubSeq(token, 1, k)) * f[2] :
               f \in {g \in UnitFactors :
                         ToLowerCase(SubSeq(token, k + 1, Len(token))) = g[1]}} :
              k \in {j \in 1..Len(token) : IsDigits(SubSeq(token, 1, j))}}

\* C26 as stated: the initial watermark is now minus the look-back of the
\* token when the token has the form <integer>(ms|s|m|h)?, and now when the
\* option is absent or the token has another form.
C26_WatermarkFromToken ==
    call.pc = "done" /\ call.fn = "listen --since"
        => \E lookBack \in IF call.since = {} THEN {0}
                           ELSE IF LookBackOf(CHOOSE t \in call.since : TRUE) = {} THEN {0}
                           ELSE LookBackOf(CHOOSE t \in call.since : TRUE) :
              call.lastSince = call.now - lookBack

\* C26 amended: the same for the token with leading and trailing blanks
\* removed.
C26_WatermarkFromTrimmedToken ==
    call.pc = "done" /\ call.fn = "listen --since"
        => \E lookBack \in IF call.since = {} THEN {0}
                           ELSE IF LookBackOf(Trim(CHOOSE t \in call.since : TRUE)) = {} THEN {0}
                           ELSE LookBackOf(Trim(CHOOSE t \in call.since : TRUE)) :
              call.lastSince = call.now - lookBack

\* listen was started with --since 5M: the watermark is five minutes back.
C26_Witness ==
    /\ call.pc = "done"
    /\ call.since = {<<"5", "M">>}
    /\ call.lastSince = call.now - 300000

\* ------------------------------------------------------------------------
\* Workspace resolution: properties
\* ------------------------------------------------------------------------

\* The ancestor-or-self directories of dir.
AncestorsOrSelf(dir) == {SubSeq(dir, 1, k) : k \in 0..Len(dir)}

\* C27: the walk goes upward from the normalized start directory, ends
\* after at most one step per level, and returns the nearest
\* ancestor-or-self directory that has a marker, or the normalized start
\* directory when none up to the root has one.
C27_NearestMarker ==
    /\ [](call.fn = "getWorkspaceKey"
            => /\ call.current \in AncestorsOrSelf(Resolve(call.start))
               /\ call.steps + Len(call.current) = Len(Resolve(call.start)))
    /\ [](call.fn = "getWorkspaceKey" /\ call.pc = "done"
            => LET start  == Resolve(call.start)
                   marked == AncestorsOrSelf(start) \cap call.markers
               IN  IF marked = {}
                   THEN call.out = {start}
                   ELSE /\ call.out \subseteq marked
                        /\ \A found \in call.out, other \in marked :
                              Len(other) <= Len(found))
    /\ <>(call.pc = "done")

\* A walk from a directory two levels below a nested marker ended at that
\* marker although an ancestor further up has one too.
C27_Witness ==
    /\ call.fn = "getWorkspaceKey"
    /\ call.pc = "done"
    /\ call.steps = 2
    /\ \E found \in call.out : Len(found) = 1
    /\ <<>> \in call.markers

\* ------------------------------------------------------------------------
\* The effective base URL: properties
\* ------------------------------------------------------------------------

\* The letters a scheme name is made of.
SchemeLetters == {"f", "h", "p", "s", "t", "w"}

\* A URL has a scheme when it begins with letters followed by `://`.
HasScheme(url) ==
    \E k \in 1..Len(url) :
        /\ \A i \in 1..k : url[i] \in SchemeLetters
        /\ k + 3 <= Len(url)
        /\ SubSeq(url, k + 1, k + 3) = <<":", "/", "/">>

\* C28: the effective base URL is the environment override when one is set
\* and the stored baseUrl otherwise, prefixed with `http://` exactly when
\* that value lacks a scheme, host names beginning with `http` included.
C28_SchemeAdded ==
    call.fn = "getBaseUrl" /\ call.pc = "done"
        => LET value == IF call.env \notin {{}, {<<>>}}
                        THEN CHOOSE u \in call.env : TRUE
                        ELSE conf["baseUrl"]
           IN  call.out = {IF HasScheme(value) THEN value ELSE HTTP_SCHEME \o value}

\* ------------------------------------------------------------------------
\* Two processes on one store: properties
\* ------------------------------------------------------------------------

\* Both processes have finished their operation.
BothDone == \A p \in ProcIds : procs[p].pc = "done"

\* The map stored under the key the two processes write.
StoredMap == ConfGetMap(conf, MapKey(procs["p1"].op))

\* C29: there is no locking and the last writer wins at the granularity of
\* the whole stored map: once a process has written, and so after both
\* have finished, the stored map is exactly the map the last writer wrote,
\* which holds the other process's entry only if the last writer had read
\* it.
C29_LastWriterWins ==
    "p1" \in DOMAIN procs /\ procs.last # {}
        => LET last  == procs[CHOOSE p \in procs.last : TRUE]
               other == procs[CHOOSE p \in ProcIds \ procs.last : TRUE]
           IN  /\ StoredMap = last.written
               /\ last.written = UpdatedMap(last.op, last.map, last.workspace, last.id)
               /\ other.workspace # last.workspace
                    => (other.workspace \in DOMAIN StoredMap
                          <=> other.workspace \in DOMAIN last.map)

\* Both processes finished a set for different workspaces of an empty
\* store, and the entry of the first writer is absent from the stored map.
C29_Witness ==
    /\ "p1" \in DOMAIN procs
    /\ BothDone
    /\ procs["p1"].op = "set"
    /\ procs["p1"].workspace # procs["p2"].workspace
    /\ procs.last = {"p2"}
    /\ procs["p1"].workspace \notin DOMAIN StoredMap
    /\ procs["p2"].workspace \in DOMAIN StoredMap

\* ------------------------------------------------------------------------
\* Shortcut handlers while tailing: properties
\* ------------------------------------------------------------------------

\* The (latest, previous) pair a handler holds, as a front of the buffer.
PairRead ==
    IF shortcut.latest = {} THEN <<>>
    ELSE <<CHOOSE id \in shortcut.latest : TRUE>>
         \o (IF shortcut.prev = {} THEN <<>> ELSE <<CHOOSE id \in shortcut.prev : TRUE>>)

\* C30: the pair a shortcut handler uses is the front of the buffer as it
\* was before or after a whole batch, never a front from the middle of a
\* batch, however key presses and ticks interleave.
C30_PairFromWholeBatches ==
    /\ Slice0(requestsCache, 2) \in shortcut.boundaries
    /\ shortcut.fired
         => /\ PairRead \in shortcut.boundaries
            /\ shortcut.latest = {} => shortcut.prev = {}

\* The diff key was pressed after a tick put two requests in the buffer at
\* once, and the handler holds both.
C30_Witness ==
    /\ shortcut.fired
    /\ shortcut.key = "d"
    /\ shortcut.latest # {}
    /\ shortcut.prev # {}
    /\ Len(rendered) >= 2
    /\ rendered[1].batch = rendered[2].batch
    /\ <<rendered[1].id>> \notin shortcut.boundaries

\* ------------------------------------------------------------------------
\* The tail loop: watermark, row counter, scheduling
\* ------------------------------------------------------------------------

\* C31: the watermark never decreases, whatever the ticks return, and it is
\* strictly greater than the timestamp of every record rendered so far.
C31_WatermarkMonotonic ==
    /\ [][lastSince' >= lastSince]_vars
    /\ [](\A i \in DOMAIN rendered : lastSince > rendered[i].ts)

\* A later tick rendered a record older than one rendered before it, and
\* the watermark, raised above its start value, stayed above the newer one.
C31_Witness ==
    /\ lastSince > startSince
    /\ \E i, j \in DOMAIN rendered :
          /\ i < j
          /\ rendered[i].ts > rendered[j].ts
          /\ lastSince = rendered[i].ts + 1

\* C32: the row counter starts at 0 and always equals the number of rows
\* rendered and the size of the seen set; the rows carry the indices
\* 1, 2, 3, ... in order, and a skipped duplicate consumes no index.
C32_IndexCountsRows ==
    /\ rowIndex = Len(rendered)
    /\ rowIndex = Cardinality(seen)
    /\ seen = {rendered[i].id : i \in DOMAIN rendered}
    /\ \A i \in DOMAIN rendered : rendered[i].idx = i
    /\ pc = "idle" /\ lastFetch = "none" => rowIndex = 0

\* The last successful tick skipped a record that was already displayed;
\* the newest row, alone in its batch, carries the index the counter shows.
C32_Witness ==
    /\ skipped # {}
    /\ Len(rendered) >= 2
    /\ rendered[Len(rendered)].batch = Len(rendered) - 1
    /\ rendered[Len(rendered)].idx = rowIndex

\* ------------------------------------------------------------------------
\* The buffer of the legacy listen: properties
\* ------------------------------------------------------------------------

\* C33: the buffer holds the most recently displayed records, newest
\* first, and never more than 10: its i-th element is the record of the
\* i-th last row, so buffer[0] is the latest row and buffer[1] the one
\* before, and an 11th push evicts the oldest.
C33_BufferNewestFirst ==
    /\ Len(requestsCache) <= LEGACY_CACHE_LIMIT
    /\ Len(requestsCache) = IF Len(rendered) < LEGACY_CACHE_LIMIT
                            THEN Len(rendered) ELSE LEGACY_CACHE_LIMIT
    /\ \A i \in DOMAIN requestsCache :
          requestsCache[i] = rendered[Len(rendered) + 1 - i].id

\* An 11th and a 12th record were displayed: the buffer is full, starts
\* with the two new records and no longer holds the two oldest.
C33_Witness ==
    /\ Len(rendered) = LEGACY_CACHE_LIMIT + 2
    /\ Len(requestsCache) = LEGACY_CACHE_LIMIT
    /\ requestsCache[1] \in ReqIds
    /\ requestsCache[2] \in ReqIds
    /\ requestsCache[1] # requestsCache[2]
    /\ rendered[1].id \notin Range(requestsCache)
    /\ rendered[2].id \notin Range(requestsCache)

\* C34: the buffer never holds the same request id twice, also when the
\* backend returns a displayed record again, so the diff shortcut always
\* gets two distinct records.
C34_NoDuplicateInBuffer ==
    /\ \A i, j \in DOMAIN requestsCache : requestsCache[i] = requestsCache[j] => i = j
    /\ (shortcut.fired /\ shortcut.key = "d" /\ shortcut.latest # {} /\ shortcut.prev # {})
          => shortcut.latest # shortcut.prev

\* C35: ticks never overlap, in either version of listen.  At most one
\* timer is pending and none while a fetch is in flight; a timer is armed
\* only by the step that ends a fetch, after its batch was processed; and
\* while a fetch is in flight nothing changes the watermark, the seen set
\* or the rows, so the batch is processed against the watermark it was
\* requested with.
C35_TicksNeverOverlap ==
    /\ [](Cardinality(timers) <= 1)
    /\ [](pc = "fetching" => timers = {} /\ reqSince = lastSince)
    /\ [][(timers' # {} /\ timers' # timers)
             => /\ pc = "fetching"
                /\ pc' = "idle"
                /\ lastFetch' \in {"ok", "error"}]_vars
    /\ [][(pc = "fetching" /\ pc' = "fetching")
             => /\ lastSince' = lastSince
                /\ seen' = seen
                /\ rendered' = rendered
                /\ requestsCache' = requestsCache]_vars

\* A tick displayed records and raised the watermark, and the next fetch
\* is in flight with that watermark and no timer pending.
C35_Witness ==
    /\ pc = "fetching"
    /\ lastFetch = "ok"
    /\ rendered # <<>>
    /\ reqSince = lastSince
    /\ lastSince > startSince
    /\ timers = {}

\* ------------------------------------------------------------------------
\* Establishing a bin: properties
\* ------------------------------------------------------------------------

\* C36: after a command establishes a bin in workspace scope (init, bin
\* selection, or the bin resolution of a command, with or without --bin),
\* the workspace's entry, the legacy activeBinId and the head of the
\* workspace's recent list all equal the public id of that bin.
C36_EstablishedEverywhere ==
    [][\A id \in BinIds, workspace \in Workspaces :
          (\/ DoEstablish(id, FALSE, workspace)
           \/ (GetBinResolved(id) /\ ~cmd.global /\ cmd.workspace = workspace))
              => /\ EntryOf(conf', workspace) = {id}
                 /\ Stored(conf', "activeBinId") = {id}
                 /\ RecentOf(conf', workspace) # <<>>
                 /\ Head(RecentOf(conf', workspace)) = id]_vars

\* A command with an explicit --bin resolved to a bin with another public
\* id in a workspace that had a different active bin: entry, legacy slot
\* and head of the recent list are the public id.
C36_Witness ==
    /\ cmd.pc = "returned"
    /\ ~cmd.global
    /\ cmd.bin # {}
    /\ cmd.bin # cmd.ret
    /\ EntryOf(conf, cmd.workspace) = cmd.ret
    /\ Stored(conf, "activeBinId") = cmd.ret
    /\ Len(RecentOf(conf, cmd.workspace)) = 2
    /\ {Head(RecentOf(conf, cmd.workspace))} = cmd.ret

=============================================================================
